---- MODULE Spec2Model ----
(***************************************************************************)
(* F1-QA-RAG: the session state (chat history store, upload collection     *)
(* registry), the vector index as the retriever uses it, the input and     *)
(* output guards, and the get_answer pipeline of src/chain/chain.py.       *)
(*                                                                         *)
(* A Python str is a sequence of one-character strings; a dict is a        *)
(* function whose DOMAIN is its key set.                                   *)
(***************************************************************************)
EXTENDS Integers, Sequences, FiniteSets, TLC

VARIABLES
    chat_histories,       \* chat_history.py:7   dict session -> list of messages
    stores,               \* chat_history.py:29  dict session -> ChatMessageHistory.messages
    session_collections,  \* uploads.py:4        dict session -> collection name
    chroma,               \* the persisted vector index: dict collection -> documents
    pc,                   \* position of each get_answer call
    question,             \* get_answer argument
    session_id,           \* get_answer argument
    year,                 \* get_answer argument
    collection_name,      \* get_answer local (chain.py:115)
    retriever,            \* get_answer local: the collection the retriever is bound to
    retrieved_docs,       \* get_answer local (chain.py:125)
    context,              \* get_answer local (chain.py:128)
    history,              \* get_answer local (chain.py:133)
    raw_answer,           \* get_answer local (chain.py:138)
    validated,            \* get_answer locals final_answer, validation_info (chain.py:144)
    result,               \* what get_answer returned, or the exception that left it
    calls,                \* per call: the collaborators it has invoked, in order
    appended,             \* per session: messages passed to add_to_history since the last clear
    completed,            \* per session: get_answer calls completed since the last clear
    lastOp,               \* the store/registry operation executed last
    nAppend,              \* number of direct add_to_history calls so far
    nOps,                 \* number of get_answer, registry, ingestion and clear calls so far
    legacy_chat_histories, \* src/chain.py:69    dict session -> list of messages
    route_result,         \* legacy get_answer local (src/chain.py:112)
    lock,                 \* uploads.py:5        the thread inside `with _lock`, or None
    reg_log,              \* the registry operations in the order their bodies ran under the lock
    handle                \* per thread: the ChatMessageHistory get_session_history returned to it

storeVars == <<chat_histories, stores, session_collections, chroma>>
reqVars == <<pc, question, session_id, year, collection_name, retriever,
             retrieved_docs, context, history, raw_answer, validated, result, calls>>
ghostVars == <<appended, completed, lastOp, nAppend, nOps>>
legacyVars == <<legacy_chat_histories, route_result>>
threadVars == <<lock, reg_log, handle>>
vars == <<storeVars, reqVars, ghostVars, legacyVars, threadVars>>

----------------------------------------------------------------------------
(* Bounds of the model *)

MaxAppend == 11
MaxOps == 3
Slack == 2          \* word counts tried on either side of the token ceiling
MaxLongWords == 1   \* two-token words at the end of a window
MaxIndex == 11      \* largest ordinal index of a chunk
MaxFragments == 4   \* fragments in a markdown text
MaxPhrases == 2     \* phrases in a question
MaxSources == 3     \* documents handed to the output guard

Sessions == {"s1", "s2"}
Reqs == {"r1", "r2"}
\* a new call takes the first free slot
ReqOrder(r) == CASE r = "r1" -> 1 [] r = "r2" -> 2

----------------------------------------------------------------------------
(* Python values *)

None == "<None>"
EmptyDict == [k \in {} |-> <<>>]

\* d[k] = v
Put(d, k, v) == [x \in (DOMAIN d) \cup {k} |-> IF x = k THEN v ELSE d[x]]
\* del d[k] / d.pop(k, None)
Del(d, k) == [x \in (DOMAIN d) \ {k} |-> d[x]]
\* d.get(k, default)
Get(d, k, default) == IF k \in DOMAIN d THEN d[k] ELSE default

Min(a, b) == IF a < b THEN a ELSE b

\* lst[-n:] for n > 0
LastN(lst, n) == IF Len(lst) <= n THEN lst ELSE SubSeq(lst, Len(lst) - n + 1, Len(lst))

HumanMessage(content) == [type |-> "human", content |-> content]
AIMessage(content) == [type |-> "ai", content |-> content]

----------------------------------------------------------------------------
(* Texts used as inputs *)

Q_drs == <<"D", "R", "S", "?">>
Q_inject == <<"Y", "o", "u", " ", "A", "R", "E", " ", "n", "o", "w", " ", "x">>
Q_empty == <<>>

A_drs == <<"D", "R", "S", " ", "o", "p", "e", "n", "s">>
A_none == <<"n", "o", " ", "i", "d", "e", "a">>

UserMsgs == {Q_drs, Q_empty}
AiMsgs == {A_drs}

----------------------------------------------------------------------------
(* src/chain/chat_history.py *)

HistoryCap == 20
LegacyHistoryCap == 20

\* get_chat_history: the only definition of that name; reads chat_histories
get_chat_history(ch, s) == Get(ch, s, <<>>)

\* add_to_history, first definition (lines 13-21): rebound at line 37, so no
\* caller of the imported module reaches it
add_to_history_first(ch, s, human_msg, ai_msg) ==
    LET ch1 == IF s \notin DOMAIN ch THEN Put(ch, s, <<>>) ELSE ch
        ch2 == [ch1 EXCEPT ![s] = Append(Append(@, HumanMessage(human_msg)), AIMessage(ai_msg))]
    IN IF Len(ch2[s]) > HistoryCap
         THEN [ch2 EXCEPT ![s] = LastN(@, HistoryCap)]
         ELSE ch2

\* get_session_history: creates the session's ChatMessageHistory on first reference
get_session_history(st, s) == IF s \notin DOMAIN st THEN Put(st, s, <<>>) ELSE st

\* add_to_history, the definition in effect after import (lines 37-40)
add_to_history(st, s, human_msg, ai_msg) ==
    LET st1 == get_session_history(st, s)
    IN [st1 EXCEPT ![s] = Append(Append(@, HumanMessage(human_msg)), AIMessage(ai_msg))]

\* get_chat_history_list: get_session_history(session_id).messages
get_chat_history_list(st, s) == get_session_history(st, s)[s]

\* clear_history, the definition in effect after import (lines 46-48)
\* what the first clear_history (chat_history.py:23-26) does to stores: nothing
clear_history_first(st, s) == st

clear_history(st, s) == IF s \in DOMAIN st THEN [st EXCEPT ![s] = <<>>] ELSE st

----------------------------------------------------------------------------
(* src/tools/uploads.py *)

\* dict.setdefault in place of the assignment: an earlier override is kept
set_session_collection_keep(sc, s, c) == IF s \in DOMAIN sc THEN sc ELSE Put(sc, s, c)

set_session_collection(sc, s, c) == Put(sc, s, c)
\* a get that reports every session as absent
get_session_collection_absent(sc, s) == None

get_session_collection(sc, s) == Get(sc, s, None)
\* clear_session_collection that drops every session's entry
clear_session_collection_all(sc, s) == EmptyDict

clear_session_collection(sc, s) == Del(sc, s)

----------------------------------------------------------------------------
(* Python str operations *)

UpperChars == <<"A", "B", "C", "D", "E", "F", "G", "H", "I", "J", "K", "L", "M", "N", "O", "P", "Q", "R", "S", "T", "U", "V", "W", "X", "Y", "Z">>
LowerChars == <<"a", "b", "c", "d", "e", "f", "g", "h", "i", "j", "k", "l", "m", "n", "o", "p", "q", "r", "s", "t", "u", "v", "w", "x", "y", "z">>

\* str.lower(), one character
LowerChar(c) ==
    IF \E i \in 1..Len(UpperChars) : UpperChars[i] = c
      THEN LowerChars[CHOOSE i \in 1..Len(UpperChars) : UpperChars[i] = c]
      ELSE c

\* str.lower()
Lower(t) == IF t = <<>> THEN <<>> ELSE [i \in 1..Len(t) |-> LowerChar(t[i])]

\* sub in t
Contains(sub, t) ==
    \E i \in 0..(Len(t) - Len(sub)) : SubSeq(t, i + 1, i + Len(sub)) = sub

IsSpace(c) == c \in {" ", "\n", "\t"}

\* set(t.split()): the maximal runs of non-whitespace characters
Words(t) ==
    {SubSeq(t, i, j) : <<i, j>> \in
        {p \in (1..Len(t)) \X (1..Len(t)) :
            /\ p[1] <= p[2]
            /\ \A k \in p[1]..p[2] : ~IsSpace(t[k])
            /\ (p[1] = 1 \/ IsSpace(t[p[1] - 1]))
            /\ (p[2] = Len(t) \/ IsSpace(t[p[2] + 1]))}}

\* sep.join(parts)
RECURSIVE Join(_, _)
Join(sep, parts) ==
    IF parts = <<>> THEN <<>>
    ELSE IF Len(parts) = 1 THEN parts[1]
    ELSE parts[1] \o sep \o Join(sep, Tail(parts))

----------------------------------------------------------------------------
(* src/guardrails/checks.py: input guard *)

injection_patterns == <<
    <<"i", "g", "n", "o", "r", "e", " ", "p", "r", "e", "v", "i", "o", "u", "s", " ", "i", "n", "s", "t", "r", "u", "c", "t", "i", "o", "n", "s">>,
    <<"i", "g", "n", "o", "r", "e", " ", "a", "l", "l", " ", "i", "n", "s", "t", "r", "u", "c", "t", "i", "o", "n", "s">>,
    <<"d", "i", "s", "r", "e", "g", "a", "r", "d", " ", "y", "o", "u", "r", " ", "i", "n", "s", "t", "r", "u", "c", "t", "i", "o", "n", "s">>,
    <<"f", "o", "r", "g", "e", "t", " ", "y", "o", "u", "r", " ", "i", "n", "s", "t", "r", "u", "c", "t", "i", "o", "n", "s">>,
    <<"y", "o", "u", " ", "a", "r", "e", " ", "n", "o", "w">>,
    <<"p", "r", "e", "t", "e", "n", "d", " ", "y", "o", "u", " ", "a", "r", "e">>,
    <<"a", "c", "t", " ", "a", "s", " ", "i", "f">>,
    <<"s", "y", "s", "t", "e", "m", " ", "p", "r", "o", "m", "p", "t">>,
    <<"r", "e", "v", "e", "a", "l", " ", "y", "o", "u", "r", " ", "p", "r", "o", "m", "p", "t">>
>>

\* detect_prompt_injection without query.lower()
detect_prompt_injection_cased(query) ==
    LET hits == {i \in 1..Len(injection_patterns) : Contains(injection_patterns[i], query)}
    IN IF hits # {}
         THEN LET first == CHOOSE i \in hits : \A j \in hits : i <= j
              IN <<FALSE, <<"Potential prompt injection detected: '">> \o injection_patterns[first] \o <<"'">> >>
         ELSE <<TRUE, <<"No injection detected">> >>

\* detect_prompt_injection: <<is_safe, reason>>; the first pattern in list order wins
detect_prompt_injection(query) ==
    LET query_lower == Lower(query)
        hits == {i \in 1..Len(injection_patterns) : Contains(injection_patterns[i], query_lower)}
    IN IF hits # {}
         THEN LET first == CHOOSE i \in hits : \A j \in hits : i <= j
              IN <<FALSE, <<"Potential prompt injection detected: '">> \o injection_patterns[first] \o <<"'">> >>
         ELSE <<TRUE, <<"No injection detected">> >>

\* validate_input: <<is_valid, message>>; the topic check is commented out in the source
validate_input(query) ==
    LET d == detect_prompt_injection(query)
    IN IF ~d[1] THEN <<FALSE, d[2]>>
       ELSE <<TRUE, <<"Input validated successfully">> >>

----------------------------------------------------------------------------
(* src/guardrails/checks.py: output guard *)

stopwords == {
    <<"t", "h", "e">>, <<"a">>, <<"a", "n">>, <<"i", "s">>,
    <<"a", "r", "e">>, <<"w", "a", "s">>, <<"w", "e", "r", "e">>, <<"b", "e">>,
    <<"b", "e", "e", "n">>, <<"b", "e", "i", "n", "g">>, <<"h", "a", "v", "e">>, <<"h", "a", "s">>,
    <<"h", "a", "d">>, <<"d", "o">>, <<"d", "o", "e", "s">>, <<"d", "i", "d">>,
    <<"w", "i", "l", "l">>, <<"w", "o", "u", "l", "d">>, <<"c", "o", "u", "l", "d">>, <<"s", "h", "o", "u", "l", "d">>,
    <<"m", "a", "y">>, <<"m", "i", "g", "h", "t">>, <<"m", "u", "s", "t">>, <<"s", "h", "a", "l", "l">>,
    <<"c", "a", "n">>, <<"t", "o">>, <<"o", "f">>, <<"i", "n">>,
    <<"f", "o", "r">>, <<"o", "n">>, <<"w", "i", "t", "h">>, <<"a", "t">>,
    <<"b", "y">>, <<"f", "r", "o", "m">>, <<"a", "s">>, <<"i", "n", "t", "o">>,
    <<"t", "h", "r", "o", "u", "g", "h">>, <<"d", "u", "r", "i", "n", "g">>, <<"b", "e", "f", "o", "r", "e">>, <<"a", "f", "t", "e", "r">>,
    <<"a", "b", "o", "v", "e">>, <<"b", "e", "l", "o", "w">>, <<"b", "e", "t", "w", "e", "e", "n">>, <<"u", "n", "d", "e", "r">>,
    <<"a", "g", "a", "i", "n">>, <<"f", "u", "r", "t", "h", "e", "r">>, <<"t", "h", "e", "n">>, <<"o", "n", "c", "e">>,
    <<"h", "e", "r", "e">>, <<"t", "h", "e", "r", "e">>, <<"w", "h", "e", "n">>, <<"w", "h", "e", "r", "e">>,
    <<"w", "h", "y">>, <<"h", "o", "w">>, <<"a", "l", "l">>, <<"e", "a", "c", "h">>,
    <<"f", "e", "w">>, <<"m", "o", "r", "e">>, <<"m", "o", "s", "t">>, <<"o", "t", "h", "e", "r">>,
    <<"s", "o", "m", "e">>, <<"s", "u", "c", "h">>, <<"n", "o">>, <<"n", "o", "r">>,
    <<"n", "o", "t">>, <<"o", "n", "l", "y">>, <<"o", "w", "n">>, <<"s", "a", "m", "e">>,
    <<"s", "o">>, <<"t", "h", "a", "n">>, <<"t", "o", "o">>, <<"v", "e", "r", "y">>,
    <<"j", "u", "s", "t">>, <<"a", "n", "d">>, <<"b", "u", "t">>, <<"i", "f">>,
    <<"o", "r">>, <<"b", "e", "c", "a", "u", "s", "e">>, <<"u", "n", "t", "i", "l">>, <<"w", "h", "i", "l", "e">>,
    <<"t", "h", "i", "s">>, <<"t", "h", "a", "t">>, <<"t", "h", "e", "s", "e">>, <<"t", "h", "o", "s", "e">>
}

GroundingThresholdNum == 3
GroundingThresholdDen == 10

\* a float score kept as the exact fraction num / den
Score(n, d) == [num |-> n, den |-> d]

\* check_source_grounding with a threshold that must be exceeded
check_source_grounding_strict(answer, sources) ==
    IF sources = <<>> THEN <<FALSE, Score(0, 1)>>
    ELSE
      LET source_text == Join(<<" ">>, [i \in 1..Len(sources) |-> Lower(sources[i].page_content)])
          answer_keywords == Words(Lower(answer)) \ stopwords
          grounded_count == Cardinality({w \in answer_keywords : Contains(w, source_text)})
          total == Cardinality(answer_keywords)
      IN IF answer_keywords = {} THEN <<TRUE, Score(1, 1)>>
         ELSE <<grounded_count * GroundingThresholdDen > GroundingThresholdNum * total,
                Score(grounded_count, total)>>

\* check_source_grounding: <<is_grounded, confidence>>
check_source_grounding(answer, sources) ==
    IF sources = <<>> THEN <<FALSE, Score(0, 1)>>
    ELSE
      LET source_text == Join(<<" ">>, [i \in 1..Len(sources) |-> Lower(sources[i].page_content)])
          answer_words == Words(Lower(answer))
          answer_keywords == answer_words \ stopwords
          grounded_count == Cardinality({w \in answer_keywords : Contains(w, source_text)})
          total == Cardinality(answer_keywords)
      IN IF answer_keywords = {} THEN <<TRUE, Score(1, 1)>>
         ELSE <<grounded_count * GroundingThresholdDen >= GroundingThresholdNum * total,
                Score(grounded_count, total)>>

\* the citation lines add_source_citations builds for sources[i..], given the keys seen so far
RECURSIVE CitationLines(_, _, _)
CitationLines(sources, i, seen_sources) ==
    IF i > Len(sources) THEN <<>>
    ELSE
      LET source_name == Get(sources[i].metadata, "source", <<"U", "n", "k", "n", "o", "w", "n">>)
          rule_id == Get(sources[i].metadata, "rule_id", <<>>)
          citation_key == source_name \o <<"_">> \o rule_id
      IN IF citation_key \notin seen_sources
           THEN (IF rule_id # <<>>
                   THEN <<"- ">> \o source_name \o <<" (Rule ">> \o rule_id \o <<")\n">>
                   ELSE <<"- ">> \o source_name \o <<"\n">>)
                \o CitationLines(sources, i + 1, seen_sources \cup {citation_key})
           ELSE CitationLines(sources, i + 1, seen_sources)

\* add_source_citations with one line per source name, whatever the rule id
add_source_citations_by_source(answer, sources) ==
    IF sources = <<>> THEN answer
    ELSE answer \o <<"\n\n**Sources:**\n">>
         \o CitationLines([i \in 1..Len(sources) |->
                              [sources[i] EXCEPT !.metadata =
                                  IF \E j \in 1..(i - 1) :
                                         Get(sources[j].metadata, "source", <<>>)
                                             = Get(sources[i].metadata, "source", <<>>)
                                    THEN sources[CHOOSE j \in 1..(i - 1) :
                                             Get(sources[j].metadata, "source", <<>>)
                                                 = Get(sources[i].metadata, "source", <<>>)].metadata
                                    ELSE @]], 1, {})

\* add_source_citations
add_source_citations(answer, sources) ==
    IF sources = <<>> THEN answer
    ELSE answer \o <<"\n\n**Sources:**\n">> \o CitationLines(sources, 1, {})

\* the warning sign that opens the sentence in the source is written (!) here
Caveat == <<"(!) *Note: This answer may not be fully supported by the sources.*\n\n">>

\* validate_output without its "if sources" guard: the grounding check runs on no sources
validate_output_unguarded(answer, sources) ==
    LET g == check_source_grounding(answer, sources)
        warned == IF ~g[1] THEN Caveat \o answer ELSE answer
    IN <<add_source_citations(warned, sources),
         [is_grounded |-> g[1], grounding_score |-> g[2], has_citations |-> sources # <<>>]>>

\* validate_output that reports citations whether or not there are sources
validate_output_has_citations(answer, sources) ==
    LET g == IF sources # <<>> THEN check_source_grounding(answer, sources)
             ELSE <<TRUE, Score(1, 1)>>
        warned == IF ~g[1] THEN Caveat \o answer ELSE answer
    IN <<add_source_citations(warned, sources),
         [is_grounded |-> g[1], grounding_score |-> g[2], has_citations |-> TRUE]>>

\* validate_output that puts the caveat after the citations
validate_output_caveat_last(answer, sources) ==
    IF sources # <<>>
      THEN LET g == check_source_grounding(answer, sources)
               cited == add_source_citations(answer, sources)
           IN <<IF ~g[1] THEN cited \o Caveat ELSE cited,
                [is_grounded |-> g[1], grounding_score |-> g[2], has_citations |-> TRUE]>>
      ELSE <<answer,
             [is_grounded |-> TRUE, grounding_score |-> Score(1, 1), has_citations |-> FALSE]>>

\* validate_output: <<processed_answer, validation_info>>
validate_output(answer, sources) ==
    IF sources # <<>>
      THEN LET g == check_source_grounding(answer, sources)
               warned == IF ~g[1] THEN Caveat \o answer ELSE answer
           IN <<add_source_citations(warned, sources),
                [is_grounded |-> g[1], grounding_score |-> g[2], has_citations |-> TRUE]>>
      ELSE <<answer,
             [is_grounded |-> TRUE, grounding_score |-> Score(1, 1), has_citations |-> FALSE]>>
----------------------------------------------------------------------------
(* src/ingestion/chunk.py: token counting and the truncation pass of chunk_fia_document.  *)
(* The text of a chunk is kept as its sequence of whitespace-separated words; the         *)
(* tokenizer is a WordPiece vocabulary with the special tokens [CLS] and [SEP].           *)

\* a word of one token, a word of two tokens, and the first piece of that word alone
W_one == "article"
W_two == "scrutineering"
W_cut == "scrutineer"

\* the vocabulary: the pieces of a word, longest match first
Pieces(w) == IF w = W_two THEN <<W_cut, "##ing">> ELSE <<w>>

\* tokenizer.encode(text, add_special_tokens=False): the pieces of every word in order,
\* computed by halves
RECURSIVE WordPieces(_)
WordPieces(text) ==
    IF text = <<>> THEN <<>>
    ELSE IF Len(text) = 1 THEN Pieces(text[1])
    ELSE LET mid == Len(text) \div 2
         IN WordPieces(SubSeq(text, 1, mid)) \o WordPieces(SubSeq(text, mid + 1, Len(text)))

\* tokenizer.encode(text, add_special_tokens=True)
encode(text) == <<"[CLS]">> \o WordPieces(text) \o <<"[SEP]">>

IsSpecial(tok) == tok \in {"[CLS]", "[SEP]"}
IsContinuation(tok) == tok = "##ing"

\* the word a piece is glued onto when the next piece continues it
Glue(w, tok) == IF w = W_cut /\ tok = "##ing" THEN W_two ELSE w

\* tokenizer.decode(tokens, skip_special_tokens=True): specials are dropped, a ## piece
\* joins the word before it, every other piece starts a word; computed by halves
RECURSIVE decode(_)
decode(tokens) ==
    IF tokens = <<>> THEN <<>>
    ELSE IF Len(tokens) = 1 THEN (IF IsSpecial(tokens[1]) THEN <<>> ELSE tokens)
    ELSE LET mid == Len(tokens) \div 2
             l == decode(SubSeq(tokens, 1, mid))
             r == decode(SubSeq(tokens, mid + 1, Len(tokens)))
         IN IF l # <<>> /\ r # <<>> /\ IsContinuation(r[1])
              THEN [l EXCEPT ![Len(l)] = Glue(@, r[1])] \o Tail(r)
              ELSE l \o r

\* chunk.py:19-20
token_len(text) == Len(encode(text))

\* chunk.py:54
MAX_TOKENS == 480

\* config/config.py:33, the default of CHUNK_SIZE
DefaultChunkSize == 480

\* CHUNK_SIZE as the environment can set it: the default, and a larger window
ChunkSizes == {DefaultChunkSize, 2500}

\* tokens[:n]
Take(tokens, n) == SubSeq(tokens, 1, Min(n, Len(tokens)))

\* chunk.py:56-62 for one document: the safety truncation
truncate(page_content) ==
    IF token_len(page_content) > MAX_TOKENS
      THEN decode(Take(encode(page_content), MAX_TOKENS))
      ELSE page_content

\* the length RecursiveCharacterTextSplitter computes for a window of words joined by " ":
\* length_function of every word plus length_function of every separator (chunk.py:46-50)
WindowLength(text) ==
    IF text = <<>> THEN 0
    ELSE token_len(<<>>) * (Len(text) - 1)
         + Len(WordPieces(text)) + token_len(<<>>) * Len(text)

\* the text of n one-token words followed by m two-token words
TextOf(n, m) == [i \in 1..(n + m) |-> IF i <= n THEN W_one ELSE W_two]

\* the words that hold a rule id, and the rule id as a str
RuleWords == {"F3.1", "F3.1.1", "F3.11"}
RuleIdOf(w) ==
    CASE w = "F3.1" -> <<"F", "3", ".", "1">>
      [] w = "F3.1.1" -> <<"F", "3", ".", "1", ".", "1">>
      [] w = "F3.11" -> <<"F", "3", ".", "1", "1">>

\* tools/files/file.py:63-70 on the words of a chunk: the first rule id in the text; <<>>
\* stands for the None of a text without one (both are falsy at chunk.py:73)
extract_rule_id(text) ==
    IF \E i \in 1..Len(text) : text[i] \in RuleWords
      THEN RuleIdOf(text[CHOOSE i \in 1..Len(text) :
                             /\ text[i] \in RuleWords
                             /\ \A j \in 1..(i - 1) : text[j] \notin RuleWords])
      ELSE <<>>

\* {**a, **b}
Merge(a, b) == [k \in (DOMAIN a) \cup (DOMAIN b) |-> IF k \in DOMAIN b THEN b[k] ELSE a[k]]

\* chunk.py:53-83: the documents the token splitter returned are truncated, then each gets
\* the file's metadata under its own and its rule id
chunk_fia_document(docs, file_metadata) ==
    [i \in 1..Len(docs) |->
        LET page_content == truncate(docs[i].page_content)
            metadata == Merge(file_metadata, docs[i].metadata)
            rule_id == extract_rule_id(page_content)
        IN [page_content |-> page_content,
            metadata |-> IF rule_id # <<>> THEN Put(metadata, "rule_id", rule_id) ELSE metadata]]

\* what extract_metadata_from_filename returns for a file of the corpus and for an upload
\* whose name does not match the pattern (tools/files/file.py:15-27)
FileMetadatas ==
    {[source |-> <<"F", "I", "A", " ", "2", "0", "2", "6">>,
      regulation_year |-> <<"2", "0", "2", "6">>,
      section |-> <<"B">>,
      section_name |-> <<"S", "p", "o", "r", "t", "i", "n", "g">>,
      issue |-> <<"5">>,
      publication_date |-> <<"2", "0", "2", "6", "-", "0", "1", "-", "0", "1">>],
     [source |-> <<"n", "o", "t", "e", "s">>]}

\* the word counts of the windows tried: one word, the most the default window takes, and
\* the counts around the ceiling
WordCounts ==
    {1, (DefaultChunkSize + 2) \div 5}
    \cup ((MAX_TOKENS - 2 - Slack)..(MAX_TOKENS - 2 + Slack))

\* the documents the token splitter can return under CHUNK_SIZE = cs: windows of a
\* structural piece whose length, as the splitter computes it, is within cs
SplitDocuments(cs) ==
    {[page_content |-> t, metadata |-> [article |-> <<"A", "R", "T", "I", "C", "L", "E", " ", "3">>]] :
        t \in {x \in {TextOf(n, m) : n \in WordCounts, m \in 0..MaxLongWords}
                         \cup {<<"F3.1">> \o TextOf(n, 0) : n \in WordCounts} :
                  WindowLength(x) <= cs}}

\* pieces of questions: patterns in other case, halves of a pattern, a plain question
QueryPhrases ==
    {<<"I", "g", "n", "o", "r", "e", " ", "P", "r", "e", "v", "i", "o", "u", "s", " ", "I", "n", "s", "t", "r", "u", "c", "t", "i", "o", "n", "s">>,
     <<"y", "o", "u", " ", "a", "r", "e", " ", "n", "o", "w">>,
     <<"S", "y", "s", "t", "e", "m", " ", "P", "r", "o", "m", "p", "t">>,
     <<"y", "o", "u", " ", "a", "r", "e">>,
     <<" ", "n", "o", "w">>,
     <<"W", "h", "a", "t", " ", "a", "r", "e", " ", "t", "h", "e", " ", "D", "R", "S", " ", "r", "u", "l", "e", "s", "?">>,
     <<" ">>}

\* the questions of at most n phrases
RECURSIVE Queries(_)
Queries(n) ==
    IF n = 0 THEN {<<>>}
    ELSE LET shorter == Queries(n - 1)
         IN shorter \cup {t \o f : t \in shorter, f \in QueryPhrases}

\* str(index) of a non-negative int
Digits == <<"0", "1", "2", "3", "4", "5", "6", "7", "8", "9">>
RECURSIVE str_int(_)
str_int(n) == IF n < 10 THEN <<Digits[n + 1]>> ELSE str_int(n \div 10) \o <<Digits[(n % 10) + 1]>>

\* hashlib.md5(base.encode()).hexdigest(), taken as collision-free: the digest of a string
\* stands for that string alone
md5_hexdigest(base) == <<"md5", base>>

\* generate_chunk_id with the index left out of the base string
generate_chunk_id_no_index(doc, index) ==
    md5_hexdigest(Get(doc.metadata, "source", <<>>) \o Get(doc.metadata, "rule_id", <<>>))

\* chunk.py:22-28
generate_chunk_id(doc, index) ==
    LET base == Get(doc.metadata, "source", <<>>)
                \o Get(doc.metadata, "rule_id", <<>>)
                \o str_int(index)
    IN md5_hexdigest(base)

\* chunks as ingestion hands them to generate_chunk_id: the source from the file name, the
\* rule id when the text holds one, and text and headings of any kind
ChunkDocs ==
    {[page_content |-> t, metadata |-> md] :
        t \in {<<W_one>>, <<W_one, W_two>>},
        md \in {Merge(fm, rm) :
                   fm \in FileMetadatas,
                   rm \in {EmptyDict,
                           [rule_id |-> RuleIdOf("F3.1")],
                           [rule_id |-> RuleIdOf("F3.1.1")],
                           [rule_id |-> RuleIdOf("F3.1"), article |-> <<"3">>]}}}

----------------------------------------------------------------------------
(* src/tools/files/file.py: extract_metadata_from_filename. A path is its sequence of     *)
(* characters; the pattern is the sequence of its elements, matched as re matches them.   *)

IsDigit(c) == \E i \in 1..Len(Digits) : Digits[i] = c

\* file.py:8-12: a literal, \s+, one \d, \d+, [A-Z], .*?, and the two ends of a named group
FilenamePattern ==
    LET lit(s) == [t |-> "lit", s |-> s, g |-> ""]
        el(t) == [t |-> t, s |-> <<>>, g |-> ""]
        open(g) == [t |-> "open", s |-> <<>>, g |-> g]
        close(g) == [t |-> "close", s |-> <<>>, g |-> g]
        ws == el("ws")
        d == el("d")
        dash == lit(<<"-">>)
    IN <<lit(<<"F", "I", "A">>), ws, open("year"), d, d, d, d, close("year"), ws,
         lit(<<"F", "1", " ", "R", "e", "g", "u", "l", "a", "t", "i", "o", "n", "s">>), ws, dash, ws,
         lit(<<"S", "e", "c", "t", "i", "o", "n">>), ws, open("section"), el("upper"), close("section"), ws,
         lit(<<"[">>), open("section_name"), el("lazy"), close("section_name"), lit(<<"]">>),
         ws, dash, ws,
         lit(<<"I", "s", "s">>), ws, open("issue"), el("d+"), close("issue"), ws, dash, ws,
         open("date"), d, d, d, d, dash, d, d, dash, d, d, close("date")>>

\* the first index from i on whose character is not in the class, Len + 1 when none is
RunEnd(s, i, InClass(_)) ==
    CHOOSE j \in i..(Len(s) + 1) :
        /\ \A k \in i..(j - 1) : InClass(s[k])
        /\ j = Len(s) + 1 \/ ~InClass(s[j])

\* the match of elements k.. of the pattern at position i of s: <<TRUE, groups>> with the
\* span of every named group, or <<FALSE>>. \s+ and \d+ take their whole run (what follows
\* them in the pattern cannot start with a character of the run), .*? takes as few
\* characters as the rest of the pattern allows and no newline
RECURSIVE MatchFrom(_, _, _, _, _)
MatchFrom(pat, k, s, i, groups) ==
    IF k > Len(pat) THEN <<TRUE, groups>>
    ELSE
      LET e == pat[k]
          here(InClass(_)) == i <= Len(s) /\ InClass(s[i])
          upper(c) == \E u \in 1..Len(UpperChars) : UpperChars[u] = c
      IN CASE e.t = "lit" ->
                IF i + Len(e.s) - 1 <= Len(s) /\ SubSeq(s, i, i + Len(e.s) - 1) = e.s
                  THEN MatchFrom(pat, k + 1, s, i + Len(e.s), groups)
                  ELSE <<FALSE>>
           [] e.t = "ws" ->
                IF here(IsSpace) THEN MatchFrom(pat, k + 1, s, RunEnd(s, i, IsSpace), groups)
                ELSE <<FALSE>>
           [] e.t = "d+" ->
                IF here(IsDigit) THEN MatchFrom(pat, k + 1, s, RunEnd(s, i, IsDigit), groups)
                ELSE <<FALSE>>
           [] e.t = "d" ->
                IF here(IsDigit) THEN MatchFrom(pat, k + 1, s, i + 1, groups) ELSE <<FALSE>>
           [] e.t = "upper" ->
                IF here(upper) THEN MatchFrom(pat, k + 1, s, i + 1, groups) ELSE <<FALSE>>
           [] e.t = "lazy" ->
                LET rest == MatchFrom(pat, k + 1, s, i, groups)
                IN IF rest[1] THEN rest
                   ELSE IF i <= Len(s) /\ s[i] # "\n"
                     THEN MatchFrom(pat, k, s, i + 1, groups)
                     ELSE <<FALSE>>
           [] e.t = "open" ->
                MatchFrom(pat, k + 1, s, i, Put(groups, e.g, <<i, i>>))
           [] e.t = "close" ->
                MatchFrom(pat, k + 1, s, i, Put(groups, e.g, <<groups[e.g][1], i - 1>>))

\* re.search(pattern, s): the match at the leftmost position that has one, as
\* match.groupdict(); <<>> stands for the None of no match
re_search(pat, s) ==
    LET starts == {i \in 1..(Len(s) + 1) : MatchFrom(pat, 1, s, i, EmptyDict)[1]}
    IN IF starts = {} THEN <<>>
       ELSE LET first == CHOOSE i \in starts : \A j \in starts : i <= j
                groups == MatchFrom(pat, 1, s, first, EmptyDict)[2]
            IN [g \in DOMAIN groups |-> SubSeq(s, groups[g][1], groups[g][2])]

\* Path(file_path).stem: the last component without its last suffix; a dot that opens or
\* closes the name starts no suffix
PathStem(file_path) ==
    LET slashes == {i \in 1..Len(file_path) : file_path[i] = "/"}
        from == IF slashes = {} THEN 1 ELSE 1 + CHOOSE i \in slashes : \A j \in slashes : j <= i
        name == SubSeq(file_path, from, Len(file_path))
        dots == {i \in 2..(Len(name) - 1) : name[i] = "."}
    IN IF dots = {} THEN name
       ELSE SubSeq(name, 1, (CHOOSE i \in dots : \A j \in dots : j <= i) - 1)

\* a file name that leaves out a group the pattern does not have
extract_metadata_from_filename_no_issue(file_path) ==
    LET file_name == PathStem(file_path)
        meta == re_search(FilenamePattern, file_name)
    IN IF meta = <<>> THEN [source |-> file_name]
       ELSE [source |-> file_name,
             regulation_year |-> meta["year"],
             section |-> meta["section"],
             section_name |-> meta["section_name"],
             publication_date |-> meta["date"]]

\* file.py:4-27
extract_metadata_from_filename(file_path) ==
    LET file_name == PathStem(file_path)
        meta == re_search(FilenamePattern, file_name)
    IN IF meta = <<>> THEN [source |-> file_name]
       ELSE [source |-> file_name,
             regulation_year |-> meta["year"],
             section |-> meta["section"],
             section_name |-> meta["section_name"],
             issue |-> meta["issue"],
             publication_date |-> meta["date"]]

\* the parts a file name is put together from: a directory, words before the pattern, the
\* space after FIA, the five fields, words after the date, the suffix. The first value of
\* each is one the pattern takes
NameParts ==
    [dir : {<<>>, <<"d", "a", "t", "a", "/", "r", "a", "w", "/", "2", "0", "2", "6", "/">>},
     before : {<<>>, <<"C", "o", "p", "y", " ", "o", "f", " ">>},
     space : {<<" ">>, <<" ", " ">>, <<>>},
     year : {<<"2", "0", "2", "6">>, <<"2", "6">>},
     section : {<<"B">>, <<"b">>},
     section_name : {<<"T", "e", "c", "h", "n", "i", "c", "a", "l">>, <<>>, <<"a", "]", " ", "[", "b">>},
     issue : {<<"0", "5">>, <<"v", "5">>},
     date : {<<"2", "0", "2", "5", "-", "1", "2", "-", "1", "0">>, <<"2", "0", "2", "5", "-", "1", "-", "1", "0">>},
     after : {<<>>, <<" ", "(", "1", ")">>},
     suffix : {<<".", "p", "d", "f">>, <<>>}]

\* the stem and the path of the file made of the parts
StemOf(n) ==
    n.before \o <<"F", "I", "A">> \o n.space \o n.year \o <<" ", "F", "1", " ", "R", "e", "g", "u", "l", "a", "t", "i", "o", "n", "s", " ", "-", " ", "S", "e", "c", "t", "i", "o", "n", " ">> \o n.section \o <<" ", "[">>
    \o n.section_name \o <<"]", " ", "-", " ", "I", "s", "s", " ">> \o n.issue \o <<" ", "-", " ">> \o n.date \o n.after
PathOf(n) == n.dir \o StemOf(n) \o n.suffix

\* free-form paths with their stems: no name, a plain name, a hidden file, a name that
\* stops short of the pattern, two suffixes, a dot that closes the name
FreeFormPaths ==
    {<<<<>>, <<>>>>,
     <<<<"n", "o", "t", "e", "s", ".", "p", "d", "f">>, <<"n", "o", "t", "e", "s">>>>,
     <<<<"u", "p", "l", "o", "a", "d", "s", "/", "s", "1", "/", ".", "p", "d", "f">>, <<".", "p", "d", "f">>>>,
     <<<<"F", "I", "A", " ", "2", "0", "2", "6", " ", "F", "1", " ", "R", "e", "g", "u", "l", "a", "t", "i", "o", "n", "s", ".", "p", "d", "f">>, <<"F", "I", "A", " ", "2", "0", "2", "6", " ", "F", "1", " ", "R", "e", "g", "u", "l", "a", "t", "i", "o", "n", "s">>>>,
     <<<<"r", "u", "l", "e", "s", ".", "v", "2", ".", "p", "d", "f">>, <<"r", "u", "l", "e", "s", ".", "v", "2">>>>,
     <<<<"r", "u", "l", "e", "s", ".">>, <<"r", "u", "l", "e", "s", ".">>>>}

----------------------------------------------------------------------------
(* src/ingestion/ingest.py: run_ingestion. chunk_fia_document and generate_chunk_id are   *)
(* the functions of chunk.py, the only ones of these names in the repository. A file of   *)
(* the directory is its name and the documents the two splitters make of its text.        *)

\* s.endswith(suffix)
EndsWith(s, suffix) ==
    Len(s) >= Len(suffix) /\ SubSeq(s, Len(s) - Len(suffix) + 1, Len(s)) = suffix

YearDir == <<"d", "a", "t", "a", "/", "r", "a", "w", "/", "2", "0", "2", "6">>

\* ingest.py:171-184: the chunks of every PDF of the listing, in the order of the listing
RECURSIVE AllChunks(_)
AllChunks(listing) ==
    IF listing = <<>> THEN <<>>
    ELSE (IF EndsWith(listing[1].name, <<".", "p", "d", "f">>)
            THEN LET file_path == YearDir \o <<"/">> \o listing[1].name
                 IN chunk_fia_document(listing[1].docs,
                                       extract_metadata_from_filename(file_path))
            ELSE <<>>)
         \o AllChunks(Tail(listing))

\* ingest.py:187-197: the documents and the ids handed to vector_store.add_documents
run_ingestion(listing) ==
    LET all_chunks == AllChunks(listing)
    IN [documents |-> all_chunks,
        ids |-> [i \in 1..Len(all_chunks) |-> generate_chunk_id(all_chunks[i], i - 1)]]

\* the documents of a file of n windows: the first opens with the rule number head, the
\* last, when it is another one, with the rule number last; "" is no rule number
DocsOf(n, head, last) ==
    [i \in 1..n |->
        [page_content |-> (IF i = 1 /\ head # "" THEN <<head>>
                           ELSE IF i = n /\ i > 1 /\ last # "" THEN <<last>>
                           ELSE <<>>) \o <<W_one>>,
         metadata |-> [article |-> <<"A", "R", "T", "I", "C", "L", "E", " ", "3">>]]]

\* the files a year directory can hold: two PDFs whose names differ by a closing digit,
\* and a file that is no PDF
DirFiles ==
    {[name |-> nm, docs |-> DocsOf(n, head, last)] :
        nm \in {<<"r", "e", "g", "s", ".", "p", "d", "f">>, <<"r", "e", "g", "s", "1", ".", "p", "d", "f">>},
        n \in {1, 2, MaxIndex}, head \in {"", "F3.1", "F3.11"}, last \in {"", "F3.1"}}
    \cup {[name |-> <<"r", "e", "g", "s", ".", "m", "d">>, docs |-> DocsOf(1, "", "")]}

\* os.listdir(year_dir): one or two files of different names, in any order
Listings ==
    {<<f>> : f \in DirFiles}
    \cup {<<f, g>> : <<f, g>> \in {p \in DirFiles \X DirFiles : p[1].name # p[2].name}}

\* the headings MarkdownHeaderTextSplitter files a window under (chunk.py:12-17, 39-42)
HeaderMetadatas ==
    {EmptyDict,
     [article |-> <<"A", "R", "T", "I", "C", "L", "E", " ", "3">>],
     [article |-> <<"A", "R", "T", "I", "C", "L", "E", " ", "3">>,
      sub_article |-> <<"F", "3", ".", "1">>],
     [article |-> <<"A", "R", "T", "I", "C", "L", "E", " ", "3">>,
      sub_article |-> <<"F", "3", ".", "1">>,
      clause |-> <<"F", "3", ".", "1", ".", "1">>],
     [section |-> <<"S", "E", "C", "T", "I", "O", "N", " ", "B", ":", " ", "T", "E", "C", "H", "N", "I", "C", "A", "L">>,
      article |-> <<"A", "R", "T", "I", "C", "L", "E", " ", "3">>]}

\* windows under those headings, with and without a rule number in the text
HeadedDocuments ==
    {[page_content |-> t, metadata |-> h] :
        t \in {<<W_one>>, <<"F3.1.1", W_one>>, <<W_one, "F3.11">>}, h \in HeaderMetadatas}

\* a file of the corpus and an upload whose name does not match
ChunkedPaths == {<<"d", "a", "t", "a", "/", "r", "a", "w", "/", "2", "0", "2", "6", "/", "F", "I", "A", " ", "2", "0", "2", "6", " ", "F", "1", " ", "R", "e", "g", "u", "l", "a", "t", "i", "o", "n", "s", " ", "-", " ", "S", "e", "c", "t", "i", "o", "n", " ", "B", " ", "[", "T", "e", "c", "h", "n", "i", "c", "a", "l", "]", " ", "-", " ", "I", "s", "s", " ", "0", "5", " ", "-", " ", "2", "0", "2", "5", "-", "1", "2", "-", "1", "0", ".", "p", "d", "f">>, <<"u", "p", "l", "o", "a", "d", "s", "/", "s", "1", "/", "n", "o", "t", "e", "s", ".", "p", "d", "f">>}

----------------------------------------------------------------------------
(* src/tools/files/file.py: normalize_file_markdown. The markdown text is a sequence of   *)
(* pieces: a piece is a character, or a run of characters one of the patterns reads as a   *)
(* whole: "**", "ARTICLE", a rule number, the footer's opening words, its issue marker.    *)

Footer == "2026 Formula 1 Regulations"    \* the literal that opens the footer pattern
Issue == "Issue 5"                        \* a match of Issue \d+
SubArticleNo == "F3.1"                    \* a match of F\d+\.\d+
ClauseNo == "F3.1.1"                      \* a match of F\d+\.\d+\.\d+

\* the length of the longest run of pieces of S that starts at i
RunLen(md, i, S) ==
    CHOOSE n \in 0..(Len(md) - i + 1) :
        /\ \A k \in 0..(n - 1) : md[i + k] \in S
        /\ (i + n > Len(md) \/ md[i + n] \notin S)

\* the first position from i on that holds a piece of S, 0 when there is none
FirstOf(md, i, S) ==
    IF \E j \in i..Len(md) : md[j] \in S
      THEN CHOOSE j \in i..Len(md) : md[j] \in S /\ \A k \in i..(j - 1) : md[k] \notin S
      ELSE 0

At(md, i) == IF i >= 1 /\ i <= Len(md) THEN md[i] ELSE "<end>"

\* where a lazy .*? followed by the piece stop ends when it starts at i: the first stop
\* from i on, unless a newline comes first (the dot does not match it); 0 when no match
LazyUpTo(md, i, stop) ==
    LET j == FirstOf(md, i, {stop, "\n"})
    IN IF j # 0 /\ md[j] = stop THEN j ELSE 0

\* the match of pattern p that starts at i: <<length, replacement>>, length 0 when none
\*   1  \n{3,}                                   ->  \n\n
\*   2  2026 Formula 1 Regulations.*?Issue \d+    ->  (nothing)
\*   3  \*\*ARTICLE\s+(.*?)\*\*                  ->  ## ARTICLE \1
\*   4  \*\*(F\d+\.\d+)\*\*\s+\*\*(.*?)\*\*      ->  ### \1 \2
\*   5  \*\*(F\d+\.\d+\.\d+)\*\*                 ->  #### \1
MatchAt(p, md, i) ==
    LET NoMatch == <<0, <<>> >>
    IN CASE p = 1 ->
              LET n == RunLen(md, i, {"\n"})
              IN IF n >= 3 THEN <<n, <<"\n", "\n">> >> ELSE NoMatch
         [] p = 2 ->
              LET j == LazyUpTo(md, i + 1, Issue)
              IN IF md[i] = Footer /\ j # 0 THEN <<j - i + 1, <<>> >> ELSE NoMatch
         [] p = 3 ->
              LET w == RunLen(md, i + 2, {" ", "\n"})
                  j == LazyUpTo(md, i + 2 + w, "**")
              IN IF md[i] = "**" /\ At(md, i + 1) = "ARTICLE" /\ w >= 1 /\ j # 0
                   THEN <<j - i + 1,
                          <<"##", " ", "ARTICLE", " ">> \o SubSeq(md, i + 2 + w, j - 1)>>
                   ELSE NoMatch
         [] p = 4 ->
              LET w == RunLen(md, i + 3, {" ", "\n"})
                  j == LazyUpTo(md, i + 4 + w, "**")
              IN IF /\ md[i] = "**" /\ At(md, i + 1) = SubArticleNo /\ At(md, i + 2) = "**"
                    /\ w >= 1 /\ At(md, i + 3 + w) = "**" /\ j # 0
                   THEN <<j - i + 1,
                          <<"###", " ", SubArticleNo, " ">> \o SubSeq(md, i + 4 + w, j - 1)>>
                   ELSE NoMatch
         [] p = 5 ->
              IF md[i] = "**" /\ At(md, i + 1) = ClauseNo /\ At(md, i + 2) = "**"
                THEN <<3, <<"####", " ", ClauseNo>> >>
                ELSE NoMatch

\* re.sub(pattern p, replacement, md) from position i on: leftmost matches, not overlapping
RECURSIVE re_sub(_, _, _)
re_sub(p, md, i) ==
    IF i > Len(md) THEN <<>>
    ELSE LET m == MatchAt(p, md, i)
         IN IF m[1] > 0 THEN m[2] \o re_sub(p, md, i + m[1])
            ELSE <<md[i]>> \o re_sub(p, md, i + 1)

\* file.py:29-61
normalize_file_markdown(md) ==
    re_sub(5, re_sub(4, re_sub(3, re_sub(2, re_sub(1, md, 1), 1), 1), 1), 1)

\* the fragments the texts tried are made of
Fragments ==
    {<<"\n">>, <<"\n", "\n">>, <<"x">>, <<" ">>, <<"**">>, <<Footer>>, <<Issue>>,
     <<Footer, " ", "x", " ", Issue>>,
     <<"**", "ARTICLE", " ", "x", "**">>,
     <<"**", SubArticleNo, "**", " ", "**", "x", "**">>,
     <<"**", ClauseNo, "**">>}

\* the texts of at most n fragments; the issue marker is never followed at once by the
\* digits that open the footer literal, which \d+ would take as part of the issue number
RECURSIVE Texts(_)
Texts(n) ==
    IF n = 0 THEN {<<>>}
    ELSE LET shorter == Texts(n - 1)
         IN shorter \cup {t \o f : <<t, f>> \in
                              {p \in shorter \X Fragments :
                                  ~(p[1] # <<>> /\ p[1][Len(p[1])] = Issue /\ p[2][1] = Footer)}}

----------------------------------------------------------------------------
(* Inputs of the model *)

Questions == {Q_drs, Q_inject}
Answers == {A_drs, A_none}
Years == {2026, 1999}
\* the years whose regulations are on disk to ingest
IngestedYears == {2026}

\* str(year)
Str(y) == CASE y = 2026 -> "2026" [] y = 1999 -> "1999"

\* f"upload_{session_id}_{year}" for a file whose name carries no regulation year
UploadName(s) == CASE s = "s1" -> "upload_s1_unknown" [] s = "s2" -> "upload_s2_unknown"

\* collection names passed to set_session_collection directly
OverrideNames == {"nonexistent", ""}

D_drs == [page_content |-> <<"d", "r", "s", " ", "o", "p", "e", "n", "s", " ", "f", "l", "a", "p">>,
          metadata |-> [source |-> <<"r", "e", "g", "s">>, rule_id |-> <<"F", "1", ".", "2">>]]
D_pit == [page_content |-> <<"p", "i", "t", " ", "l", "a", "n", "e">>,
          metadata |-> [source |-> <<"r", "e", "g", "s">>]]

YearCorpus == <<D_drs, D_pit>>
UploadCorpus == <<D_pit>>

\* answers of the generator: empty, a stopword alone, capitals, a repeated word, no word
\* of the sources, a fragment of a word, and three of ten and two of nine words grounded
GuardAnswers ==
    {<<>>,
     <<"t", "h", "e">>,
     <<"T", "h", "e", " ", "D", "R", "S", " ", "o", "p", "e", "n", "s">>,
     <<"d", "r", "s", " ", "d", "r", "s", " ", "w", "i", "n", "g">>,
     <<"n", "o", " ", "i", "d", "e", "a">>,
     <<"r", "s">>,
     <<"d", "r", "s", " ", "o", "p", "e", "n", "s", " ", "f", "l", "a", "p", " ", "k", "1", " ", "k", "2", " ", "k", "3", " ", "k", "4", " ", "k", "5", " ", "k", "6", " ", "k", "7">>,
     <<"d", "r", "s", " ", "o", "p", "e", "n", "s", " ", "k", "1", " ", "k", "2", " ", "k", "3", " ", "k", "4", " ", "k", "5", " ", "k", "6", " ", "k", "7">>}

\* retrieved documents: two chunks of one rule, a chunk without rule id, a source whose
\* name ends like a rule id, a chunk without source
D_zone == [page_content |-> <<"D", "R", "S", " ", "Z", "o", "n", "e">>,
           metadata |-> [source |-> <<"r", "e", "g", "s">>, rule_id |-> <<"F", "1", ".", "2">>]]
D_und == [page_content |-> <<"w", "i", "n", "g">>,
          metadata |-> [source |-> <<"r", "e", "g", "s", "_", "F", "1", ".", "2">>]]
D_anon == [page_content |-> <<"f", "l", "a", "p">>,
           metadata |-> [rule_id |-> <<"F", "1", ".", "2">>]]
GuardDocs == {D_drs, D_pit, D_zone, D_und, D_anon}

\* the lists of at most n retrieved documents
RECURSIVE SourceLists(_)
SourceLists(n) ==
    IF n = 0 THEN {<<>>}
    ELSE LET shorter == SourceLists(n - 1)
         IN shorter \cup {Append(l, d) : l \in shorter, d \in GuardDocs}


----------------------------------------------------------------------------
(* src/tools/retriever/retriever.py and the vector index behind it *)

K == 5

\* Chroma(collection_name=...): opens the collection, creating it empty when it does not exist
OpenCollection(db, c) == IF c \notin DOMAIN db THEN Put(db, c, <<>>) ELSE db

\* retriever.invoke(question): at most k documents of the collection
Query(db, c, k) == SubSeq(db[c], 1, Min(k, Len(db[c])))

----------------------------------------------------------------------------
(* src/chain/chain.py: get_answer, one action per blocking step *)

NoResult == [kind |-> "none"]
Returned(v) == [kind |-> "return", value |-> v]
Raised(who) == [kind |-> "raise", exception |-> who]

NoOp == [op |-> "none"]
NoRoute == [intent |-> "none"]
\* a thread holds no history object; Stored is the object stores[session_id] refers to, an
\* Orphan is an object another thread's `stores[session_id] = ...` has since replaced
NoHandle == [kind |-> "none"]
Stored == [kind |-> "stored"]
Orphan(messages) == [kind |-> "orphan", messages |-> messages]

Init ==
    /\ chat_histories = EmptyDict
    /\ stores = EmptyDict
    /\ session_collections = EmptyDict
    /\ chroma = EmptyDict
    /\ pc = [r \in Reqs |-> "idle"]
    /\ question = [r \in Reqs |-> <<>>]
    /\ session_id = [r \in Reqs |-> None]
    /\ year = [r \in Reqs |-> 0]
    /\ collection_name = [r \in Reqs |-> None]
    /\ retriever = [r \in Reqs |-> None]
    /\ retrieved_docs = [r \in Reqs |-> <<>>]
    /\ context = [r \in Reqs |-> <<>>]
    /\ history = [r \in Reqs |-> <<>>]
    /\ raw_answer = [r \in Reqs |-> <<>>]
    /\ validated = [r \in Reqs |-> <<>>]
    /\ result = [r \in Reqs |-> NoResult]
    /\ calls = [r \in Reqs |-> <<>>]
    /\ appended = [s \in Sessions |-> <<>>]
    /\ completed = [s \in Sessions |-> 0]
    /\ lastOp = NoOp
    /\ nAppend = 0
    /\ nOps = 0
    /\ legacy_chat_histories = EmptyDict
    /\ route_result = [r \in Reqs |-> NoRoute]
    /\ lock = None
    /\ reg_log = <<>>
    /\ handle = [r \in Reqs |-> NoHandle]

\* get_answer(question, session_id, year) is called
Call(r, q, s, y) ==
    /\ pc[r] = "idle"
    /\ \A r2 \in Reqs : pc[r2] = "idle" => ReqOrder(r) <= ReqOrder(r2)
    /\ nOps < MaxOps
    /\ pc' = [pc EXCEPT ![r] = "RECEIVED"]
    /\ question' = [question EXCEPT ![r] = q]
    /\ session_id' = [session_id EXCEPT ![r] = s]
    /\ year' = [year EXCEPT ![r] = y]
    /\ nOps' = nOps + 1
    /\ UNCHANGED <<storeVars, collection_name, retriever, retrieved_docs, context, history,
                   raw_answer, validated, result, calls, appended, completed, lastOp, nAppend>>
    /\ UNCHANGED <<legacyVars, threadVars>>

\* get_answer without the early return of lines 106-111
InputCheckNoReturn(r) ==
    /\ pc[r] = "RECEIVED"
    /\ pc' = [pc EXCEPT ![r] = "INPUT_CHECKED"]
    /\ calls' = [calls EXCEPT ![r] = Append(@, "validate_input")]
    /\ UNCHANGED <<storeVars, question, session_id, year, collection_name, retriever,
                   retrieved_docs, context, history, raw_answer, validated, result, ghostVars>>
    /\ UNCHANGED <<legacyVars, threadVars>>

\* chain.py:105-111
InputCheck(r) ==
    /\ pc[r] = "RECEIVED"
    /\ LET v == validate_input(question[r])
       IN IF ~v[1]
            THEN /\ pc' = [pc EXCEPT ![r] = "BLOCKED"]
                 /\ result' = [result EXCEPT ![r] = Returned(
                        [answer |-> <<"I cannot process this request: ">> \o v[2],
                         sources |-> <<>>,
                         validation_info |-> [input_blocked |-> TRUE, reason |-> v[2]]])]
            ELSE /\ pc' = [pc EXCEPT ![r] = "INPUT_CHECKED"]
                 /\ UNCHANGED result
    /\ calls' = [calls EXCEPT ![r] = Append(@, "validate_input")]
    /\ UNCHANGED <<storeVars, question, session_id, year, collection_name, retriever,
                   retrieved_docs, context, history, raw_answer, validated, ghostVars>>
    /\ UNCHANGED <<legacyVars, threadVars>>

\* the collection chain.py:118-123 binds the retriever to
RouteTo(cn, y) == IF cn # None /\ cn # "" THEN cn ELSE Str(y)

\* chain.py:115-123
Route(r) ==
    /\ pc[r] = "INPUT_CHECKED"
    /\ LET cn == get_session_collection(session_collections, session_id[r])
       IN /\ collection_name' = [collection_name EXCEPT ![r] = cn]
          /\ retriever' = [retriever EXCEPT ![r] = RouteTo(cn, year[r])]
    /\ pc' = [pc EXCEPT ![r] = "ROUTED"]
    /\ calls' = [calls EXCEPT ![r] = Append(@, "get_session_collection")]
    /\ UNCHANGED <<storeVars, question, session_id, year, retrieved_docs, context, history,
                   raw_answer, validated, result, ghostVars>>
    /\ UNCHANGED <<legacyVars, threadVars>>

\* chain.py:128-131: the retrieved documents as one prompt context
ContextOf(docs) ==
    Join(<<"\n", "\n">>,
         [i \in 1..Len(docs) |->
             <<"[Source: ">> \o Get(docs[i].metadata, "source", <<"U", "n", "k", "n", "o", "w", "n">>)
             \o <<" | Rule: ">> \o Get(docs[i].metadata, "rule_id", <<"N", "/", "A">>)
             \o <<"]\n">> \o docs[i].page_content])

\* chain.py:118-131, the vector index answers
Retrieve(r) ==
    /\ pc[r] = "ROUTED"
    /\ chroma' = OpenCollection(chroma, retriever[r])
    /\ retrieved_docs' = [retrieved_docs EXCEPT ![r] = Query(chroma', retriever[r], K)]
    /\ context' = [context EXCEPT ![r] = ContextOf(retrieved_docs'[r])]
    /\ pc' = [pc EXCEPT ![r] = "RETRIEVED"]
    /\ calls' = [calls EXCEPT ![r] = Append(@, "vector_index")]
    /\ UNCHANGED <<chat_histories, stores, session_collections, question, session_id, year,
                   collection_name, retriever, history, raw_answer, validated, result, ghostVars>>
    /\ UNCHANGED <<legacyVars, threadVars>>

\* chain.py:118-125, the vector index or the embedding model raises
RetrieveFail(r) ==
    /\ pc[r] = "ROUTED"
    /\ pc' = [pc EXCEPT ![r] = "ERROR"]
    /\ result' = [result EXCEPT ![r] = Raised("vector_index")]
    /\ calls' = [calls EXCEPT ![r] = Append(@, "vector_index")]
    /\ UNCHANGED <<storeVars, question, session_id, year, collection_name, retriever,
                   retrieved_docs, context, history, raw_answer, validated, ghostVars>>
    /\ UNCHANGED <<legacyVars, threadVars>>

\* chain.py:133-142, the generator answers a
Generate(r, a) ==
    /\ pc[r] = "RETRIEVED"
    /\ history' = [history EXCEPT ![r] = get_chat_history(chat_histories, session_id[r])]
    /\ raw_answer' = [raw_answer EXCEPT ![r] = a]
    /\ pc' = [pc EXCEPT ![r] = "GENERATED"]
    /\ calls' = [calls EXCEPT ![r] = Append(@, "generator")]
    /\ UNCHANGED <<storeVars, question, session_id, year, collection_name, retriever,
                   retrieved_docs, context, validated, result, ghostVars>>
    /\ UNCHANGED <<legacyVars, threadVars>>

\* get_answer recording the question before the generator is called
GenerateFailRecorded(r) ==
    /\ pc[r] = "RETRIEVED"
    /\ history' = [history EXCEPT ![r] = get_chat_history(chat_histories, session_id[r])]
    /\ stores' = add_to_history(stores, session_id[r], question[r], <<>>)
    /\ pc' = [pc EXCEPT ![r] = "ERROR"]
    /\ result' = [result EXCEPT ![r] = Raised("generator")]
    /\ calls' = [calls EXCEPT ![r] = Append(@, "generator")]
    /\ UNCHANGED <<chat_histories, session_collections, chroma, question, session_id, year,
                   collection_name, retriever, retrieved_docs, context, raw_answer, validated,
                   ghostVars>>
    /\ UNCHANGED <<legacyVars, threadVars>>

\* chain.py:133-142, the generator raises
GenerateFail(r) ==
    /\ pc[r] = "RETRIEVED"
    /\ history' = [history EXCEPT ![r] = get_chat_history(chat_histories, session_id[r])]
    /\ pc' = [pc EXCEPT ![r] = "ERROR"]
    /\ result' = [result EXCEPT ![r] = Raised("generator")]
    /\ calls' = [calls EXCEPT ![r] = Append(@, "generator")]
    /\ UNCHANGED <<storeVars, question, session_id, year, collection_name, retriever,
                   retrieved_docs, context, raw_answer, validated, ghostVars>>
    /\ UNCHANGED <<legacyVars, threadVars>>

\* chain.py:144
OutputCheck(r) ==
    /\ pc[r] = "GENERATED"
    /\ validated' = [validated EXCEPT ![r] = validate_output(raw_answer[r], retrieved_docs[r])]
    /\ pc' = [pc EXCEPT ![r] = "OUTPUT_CHECKED"]
    /\ calls' = [calls EXCEPT ![r] = Append(@, "validate_output")]
    /\ UNCHANGED <<storeVars, question, session_id, year, collection_name, retriever,
                   retrieved_docs, context, history, raw_answer, result, ghostVars>>
    /\ UNCHANGED <<legacyVars, threadVars>>

\* [d.metadata for d in retrieved_docs] if retrieved_docs else []
SourcesOf(docs) == IF docs = <<>> THEN <<>> ELSE [i \in 1..Len(docs) |-> docs[i].metadata]

\* chain.py:145-151
Record(r) ==
    /\ pc[r] = "OUTPUT_CHECKED"
    /\ stores' = add_to_history(stores, session_id[r], question[r], raw_answer[r])
    /\ result' = [result EXCEPT ![r] = Returned(
           [answer |-> validated[r][1],
            sources |-> SourcesOf(retrieved_docs[r]),
            validation_info |-> validated[r][2]])]
    /\ pc' = [pc EXCEPT ![r] = "DONE"]
    /\ calls' = [calls EXCEPT ![r] = Append(@, "add_to_history")]
    /\ appended' = [appended EXCEPT ![session_id[r]] =
           Append(Append(@, HumanMessage(question[r])), AIMessage(raw_answer[r]))]
    /\ completed' = [completed EXCEPT ![session_id[r]] = @ + 1]
    /\ UNCHANGED <<chat_histories, session_collections, chroma, question, session_id, year,
                   collection_name, retriever, retrieved_docs, context, history, raw_answer,
                   validated, lastOp, nAppend, nOps>>
    /\ UNCHANGED <<legacyVars, threadVars>>

\* the caller has taken the result (or the exception); the locals are gone
Finish(r) ==
    /\ pc[r] \in {"DONE", "BLOCKED", "ERROR", "ROUTE_ERROR"}
    /\ pc' = [pc EXCEPT ![r] = "idle"]
    /\ question' = [question EXCEPT ![r] = <<>>]
    /\ session_id' = [session_id EXCEPT ![r] = None]
    /\ year' = [year EXCEPT ![r] = 0]
    /\ collection_name' = [collection_name EXCEPT ![r] = None]
    /\ retriever' = [retriever EXCEPT ![r] = None]
    /\ retrieved_docs' = [retrieved_docs EXCEPT ![r] = <<>>]
    /\ context' = [context EXCEPT ![r] = <<>>]
    /\ history' = [history EXCEPT ![r] = <<>>]
    /\ raw_answer' = [raw_answer EXCEPT ![r] = <<>>]
    /\ validated' = [validated EXCEPT ![r] = <<>>]
    /\ result' = [result EXCEPT ![r] = NoResult]
    /\ calls' = [calls EXCEPT ![r] = <<>>]
    /\ route_result' = [route_result EXCEPT ![r] = NoRoute]
    /\ handle' = [handle EXCEPT ![r] = NoHandle]
    /\ UNCHANGED <<storeVars, ghostVars, legacy_chat_histories, lock, reg_log>>

----------------------------------------------------------------------------
(* src/chain.py: the legacy get_answer, with its own history store *)

\* src/chain.py:71-73
legacy_get_chat_history(ch, s) == Get(ch, s, <<>>)

\* src/chain.py:75-83
legacy_add_to_history(ch, s, human_msg, ai_msg) ==
    LET ch1 == IF s \notin DOMAIN ch THEN Put(ch, s, <<>>) ELSE ch
        ch2 == [ch1 EXCEPT ![s] = Append(Append(@, HumanMessage(human_msg)), AIMessage(ai_msg))]
    IN IF Len(ch2[s]) > LegacyHistoryCap
         THEN [ch2 EXCEPT ![s] = LastN(@, LegacyHistoryCap)]
         ELSE ch2

\* src/chain.py:85-88
legacy_clear_history(ch, s) == IF s \in DOMAIN ch THEN Del(ch, s) ELSE ch

\* what router_chain.invoke can return: a RouteQuery (models/models.py:13-28); an absent
\* sub-query is <<>>, a present one a one-element sequence
RouteResults ==
    {[intent |-> "REGULATIONS", regulations_query |-> <<y>>, race_query |-> <<>>] : y \in Years}
    \cup {[intent |-> "REGULATIONS", regulations_query |-> <<>>, race_query |-> <<>>],
          [intent |-> "RACE_RESULTS", regulations_query |-> <<>>, race_query |-> <<[year |-> 2026, gp_name |-> "Bahrain"]>>],
          [intent |-> "RACE_RESULTS", regulations_query |-> <<>>, race_query |-> <<>>],
          [intent |-> "GENERAL_CHAT", regulations_query |-> <<>>, race_query |-> <<>>]}

\* what get_race_results_tool.invoke can return: the table, or the error text of f1_stats.py:25
RaceTable == <<"| Position | FullName | TeamName | Points |">>
RaceError == <<"Error fetching results for ">>
RaceContexts == {RaceTable, RaceError}

\* src/chain.py:91-98
LegacyCall(r, q, s) ==
    /\ pc[r] = "idle"
    /\ \A x \in Reqs : pc[x] = "idle" => ReqOrder(r) <= ReqOrder(x)
    /\ nOps < MaxOps
    /\ pc' = [pc EXCEPT ![r] = "L_RECEIVED"]
    /\ question' = [question EXCEPT ![r] = q]
    /\ session_id' = [session_id EXCEPT ![r] = s]
    /\ nOps' = nOps + 1
    /\ UNCHANGED <<storeVars, year, collection_name, retriever, retrieved_docs, context, history,
                   raw_answer, validated, result, calls, appended, completed, lastOp, nAppend,
                   legacyVars>>
    /\ UNCHANGED threadVars

\* src/chain.py:101-108
LegacyInputCheck(r) ==
    /\ pc[r] = "L_RECEIVED"
    /\ LET v == validate_input(question[r])
       IN IF ~v[1]
            THEN /\ pc' = [pc EXCEPT ![r] = "BLOCKED"]
                 /\ result' = [result EXCEPT ![r] = Returned(
                        [answer |-> <<"I cannot process this request: ">> \o v[2],
                         intent |-> "BLOCKED",
                         sources |-> <<>>,
                         validation_info |-> [input_blocked |-> TRUE, reason |-> v[2]]])]
            ELSE /\ pc' = [pc EXCEPT ![r] = "L_INPUT_CHECKED"]
                 /\ UNCHANGED result
    /\ calls' = [calls EXCEPT ![r] = Append(@, "validate_input")]
    /\ UNCHANGED <<storeVars, question, session_id, year, collection_name, retriever,
                   retrieved_docs, context, history, raw_answer, validated, ghostVars, legacyVars>>
    /\ UNCHANGED threadVars

\* src/chain.py:111-114, the router answers rr
LegacyRoute(r, rr) ==
    /\ pc[r] = "L_INPUT_CHECKED"
    /\ route_result' = [route_result EXCEPT ![r] = rr]
    /\ pc' = [pc EXCEPT ![r] = "L_ROUTED"]
    /\ calls' = [calls EXCEPT ![r] = Append(@, "router")]
    /\ UNCHANGED <<storeVars, question, session_id, year, collection_name, retriever,
                   retrieved_docs, context, history, raw_answer, validated, result, ghostVars,
                   legacy_chat_histories>>
    /\ UNCHANGED threadVars

\* src/chain.py:115-122, the router raises and the error result is returned
LegacyRouteFail(r) ==
    /\ pc[r] = "L_INPUT_CHECKED"
    /\ pc' = [pc EXCEPT ![r] = "ROUTE_ERROR"]
    /\ result' = [result EXCEPT ![r] = Returned(
           [answer |-> <<"Sorry, I had trouble understanding your question. Please try rephrasing.">>,
            intent |-> "ERROR",
            sources |-> <<>>,
            validation_info |-> [error |-> <<"router">>]])]
    /\ calls' = [calls EXCEPT ![r] = Append(@, "router")]
    /\ UNCHANGED <<storeVars, question, session_id, year, collection_name, retriever,
                   retrieved_docs, context, history, raw_answer, validated, ghostVars, legacyVars>>
    /\ UNCHANGED threadVars

\* src/chain.py:129: the year of the regulations query, 2026 when it is absent
LegacyYear(rr) == IF rr.regulations_query # <<>> THEN rr.regulations_query[1] ELSE 2026

\* src/chain.py:124-140 and 151-152: the regulations retriever answers, or the intent is
\* general chat and no tool is called
LegacyTool(r) ==
    /\ pc[r] = "L_ROUTED"
    /\ route_result[r].intent \in {"REGULATIONS", "GENERAL_CHAT"}
    /\ LET rr == route_result[r]
       IN IF rr.intent = "REGULATIONS"
            THEN /\ year' = [year EXCEPT ![r] = LegacyYear(rr)]
                 /\ retriever' = [retriever EXCEPT ![r] = Str(year'[r])]
                 /\ chroma' = OpenCollection(chroma, retriever'[r])
                 /\ retrieved_docs' = [retrieved_docs EXCEPT ![r] = Query(chroma', retriever'[r], K)]
                 /\ context' = [context EXCEPT ![r] = ContextOf(retrieved_docs'[r])]
                 /\ calls' = [calls EXCEPT ![r] = Append(@, "vector_index")]
            ELSE /\ context' = [context EXCEPT ![r] =
                        <<"No specific F1 data retrieved. Answer based on general knowledge about Formula 1.">>]
                 /\ UNCHANGED <<year, retriever, chroma, retrieved_docs, calls>>
    /\ pc' = [pc EXCEPT ![r] = "L_RETRIEVED"]
    /\ UNCHANGED <<chat_histories, stores, session_collections, question, session_id,
                   collection_name, history, raw_answer, validated, result, ghostVars, legacyVars>>
    /\ UNCHANGED threadVars

\* src/chain.py:142-149: the race results tool returns rc, or the race query is absent
LegacyRaceTool(r, rc) ==
    /\ pc[r] = "L_ROUTED"
    /\ route_result[r].intent = "RACE_RESULTS"
    /\ IF route_result[r].race_query # <<>>
         THEN /\ year' = [year EXCEPT ![r] = route_result[r].race_query[1].year]
              /\ context' = [context EXCEPT ![r] = rc]
              /\ calls' = [calls EXCEPT ![r] = Append(@, "race_results")]
         ELSE /\ rc = RaceError
              /\ context' = [context EXCEPT ![r] =
                     <<"Error: Could not extract Race Name or Year from your question.">>]
              /\ UNCHANGED <<calls, year>>
    /\ pc' = [pc EXCEPT ![r] = "L_RETRIEVED"]
    /\ UNCHANGED <<storeVars, question, session_id, collection_name, retriever,
                   retrieved_docs, history, raw_answer, validated, result, ghostVars, legacyVars>>
    /\ UNCHANGED threadVars

\* src/chain.py:133-134, the vector index or the embedding model raises
LegacyToolFail(r) ==
    /\ pc[r] = "L_ROUTED"
    /\ route_result[r].intent = "REGULATIONS"
    /\ year' = [year EXCEPT ![r] = LegacyYear(route_result[r])]
    /\ retriever' = [retriever EXCEPT ![r] = Str(year'[r])]
    /\ pc' = [pc EXCEPT ![r] = "ERROR"]
    /\ result' = [result EXCEPT ![r] = Raised("vector_index")]
    /\ calls' = [calls EXCEPT ![r] = Append(@, "vector_index")]
    /\ UNCHANGED <<storeVars, question, session_id, collection_name, retrieved_docs, context,
                   history, raw_answer, validated, ghostVars, legacyVars>>
    /\ UNCHANGED threadVars

\* src/chain.py:155-163, the generator answers a
LegacyGenerate(r, a) ==
    /\ pc[r] = "L_RETRIEVED"
    /\ history' = [history EXCEPT ![r] = legacy_get_chat_history(legacy_chat_histories, session_id[r])]
    /\ raw_answer' = [raw_answer EXCEPT ![r] = a]
    /\ pc' = [pc EXCEPT ![r] = "L_GENERATED"]
    /\ calls' = [calls EXCEPT ![r] = Append(@, "generator")]
    /\ UNCHANGED <<storeVars, question, session_id, year, collection_name, retriever,
                   retrieved_docs, context, validated, result, ghostVars, legacyVars>>
    /\ UNCHANGED threadVars

\* src/chain.py:155-163, the generator raises
LegacyGenerateFail(r) ==
    /\ pc[r] = "L_RETRIEVED"
    /\ history' = [history EXCEPT ![r] = legacy_get_chat_history(legacy_chat_histories, session_id[r])]
    /\ pc' = [pc EXCEPT ![r] = "ERROR"]
    /\ result' = [result EXCEPT ![r] = Raised("generator")]
    /\ calls' = [calls EXCEPT ![r] = Append(@, "generator")]
    /\ UNCHANGED <<storeVars, question, session_id, year, collection_name, retriever,
                   retrieved_docs, context, raw_answer, validated, ghostVars, legacyVars>>
    /\ UNCHANGED threadVars

\* src/chain.py:166
LegacyOutputCheck(r) ==
    /\ pc[r] = "L_GENERATED"
    /\ validated' = [validated EXCEPT ![r] = validate_output(raw_answer[r], retrieved_docs[r])]
    /\ pc' = [pc EXCEPT ![r] = "L_OUTPUT_CHECKED"]
    /\ calls' = [calls EXCEPT ![r] = Append(@, "validate_output")]
    /\ UNCHANGED <<storeVars, question, session_id, year, collection_name, retriever,
                   retrieved_docs, context, history, raw_answer, result, ghostVars, legacyVars>>
    /\ UNCHANGED threadVars

\* src/chain.py:169-176
LegacyRecord(r) ==
    /\ pc[r] = "L_OUTPUT_CHECKED"
    /\ legacy_chat_histories' =
           legacy_add_to_history(legacy_chat_histories, session_id[r], question[r], raw_answer[r])
    /\ result' = [result EXCEPT ![r] = Returned(
           [answer |-> validated[r][1],
            intent |-> route_result[r].intent,
            sources |-> SourcesOf(retrieved_docs[r]),
            validation_info |-> validated[r][2]])]
    /\ pc' = [pc EXCEPT ![r] = "DONE"]
    /\ calls' = [calls EXCEPT ![r] = Append(@, "add_to_history")]
    /\ UNCHANGED <<storeVars, question, session_id, year, collection_name, retriever,
                   retrieved_docs, context, history, raw_answer, validated, ghostVars, route_result>>
    /\ UNCHANGED threadVars

\* src/server.py:130-142, the clear endpoint calls the legacy clear_history
LegacyClearHistory(s) ==
    /\ nOps < MaxOps
    /\ nOps' = nOps + 1
    /\ legacy_chat_histories' = legacy_clear_history(legacy_chat_histories, s)
    /\ UNCHANGED <<storeVars, reqVars, appended, completed, lastOp, nAppend, route_result>>
    /\ UNCHANGED threadVars

----------------------------------------------------------------------------
(* src/chain/chain.py: rag_chain, the chain server.py serves at /answer *)

\* chain.py:89-94 invoked with a question and a session: RunnableWithMessageHistory
\* loads the messages of get_session_history(session_id) for the prompt
AnswerCall(r, q, s, y) ==
    /\ pc[r] = "idle"
    /\ \A r2 \in Reqs : pc[r2] = "idle" => ReqOrder(r) <= ReqOrder(r2)
    /\ nOps < MaxOps
    /\ nOps' = nOps + 1
    /\ pc' = [pc EXCEPT ![r] = "A_HISTORY"]
    /\ question' = [question EXCEPT ![r] = q]
    /\ session_id' = [session_id EXCEPT ![r] = s]
    /\ year' = [year EXCEPT ![r] = y]
    /\ stores' = get_session_history(stores, s)
    /\ history' = [history EXCEPT ![r] = stores'[s]]
    /\ calls' = [calls EXCEPT ![r] = Append(@, "get_session_history")]
    /\ UNCHANGED <<chat_histories, session_collections, chroma, collection_name, retriever,
                   retrieved_docs, context, raw_answer, validated, result, appended,
                   completed, lastOp, nAppend>>
    /\ UNCHANGED <<legacyVars, threadVars>>

\* chain.py:46-74 fetch_context, the vector index answers
AnswerFetchContext(r) ==
    /\ pc[r] = "A_HISTORY"
    /\ LET cn == get_session_collection(session_collections, session_id[r])
       IN /\ collection_name' = [collection_name EXCEPT ![r] = cn]
          /\ retriever' = [retriever EXCEPT ![r] = RouteTo(cn, year[r])]
    /\ chroma' = OpenCollection(chroma, retriever'[r])
    /\ retrieved_docs' = [retrieved_docs EXCEPT ![r] = Query(chroma', retriever'[r], K)]
    /\ context' = [context EXCEPT ![r] = ContextOf(retrieved_docs'[r])]
    /\ pc' = [pc EXCEPT ![r] = "A_RETRIEVED"]
    /\ calls' = [calls EXCEPT ![r] = Append(Append(@, "get_session_collection"), "vector_index")]
    /\ UNCHANGED <<chat_histories, stores, session_collections, question, session_id, year,
                   history, raw_answer, validated, result, ghostVars>>
    /\ UNCHANGED <<legacyVars, threadVars>>

\* chain.py:46-68 fetch_context, the vector index or the embedding model raises
AnswerFetchFail(r) ==
    /\ pc[r] = "A_HISTORY"
    /\ pc' = [pc EXCEPT ![r] = "ERROR"]
    /\ result' = [result EXCEPT ![r] = Raised("vector_index")]
    /\ calls' = [calls EXCEPT ![r] = Append(Append(@, "get_session_collection"), "vector_index")]
    /\ UNCHANGED <<storeVars, question, session_id, year, collection_name, retriever,
                   retrieved_docs, context, history, raw_answer, validated, ghostVars>>
    /\ UNCHANGED <<legacyVars, threadVars>>

\* chain.py:82-85, the generator answers a
AnswerGenerate(r, a) ==
    /\ pc[r] = "A_RETRIEVED"
    /\ raw_answer' = [raw_answer EXCEPT ![r] = a]
    /\ pc' = [pc EXCEPT ![r] = "A_GENERATED"]
    /\ calls' = [calls EXCEPT ![r] = Append(@, "generator")]
    /\ UNCHANGED <<storeVars, question, session_id, year, collection_name, retriever,
                   retrieved_docs, context, history, validated, result, ghostVars>>
    /\ UNCHANGED <<legacyVars, threadVars>>

\* chain.py:82-84, the generator raises
AnswerGenerateFail(r) ==
    /\ pc[r] = "A_RETRIEVED"
    /\ pc' = [pc EXCEPT ![r] = "ERROR"]
    /\ result' = [result EXCEPT ![r] = Raised("generator")]
    /\ calls' = [calls EXCEPT ![r] = Append(@, "generator")]
    /\ UNCHANGED <<storeVars, question, session_id, year, collection_name, retriever,
                   retrieved_docs, context, history, raw_answer, validated, ghostVars>>
    /\ UNCHANGED <<legacyVars, threadVars>>

\* chain.py:85-94: the answer is returned as it is and RunnableWithMessageHistory adds the
\* question and the answer to the session's history
AnswerRecord(r) ==
    /\ pc[r] = "A_GENERATED"
    /\ stores' = add_to_history(stores, session_id[r], question[r], raw_answer[r])
    /\ result' = [result EXCEPT ![r] = Returned([answer |-> raw_answer[r]])]
    /\ pc' = [pc EXCEPT ![r] = "DONE"]
    /\ calls' = [calls EXCEPT ![r] = Append(@, "add_to_history")]
    /\ appended' = [appended EXCEPT ![session_id[r]] =
           Append(Append(@, HumanMessage(question[r])), AIMessage(raw_answer[r]))]
    /\ completed' = [completed EXCEPT ![session_id[r]] = @ + 1]
    /\ UNCHANGED <<chat_histories, session_collections, chroma, question, session_id, year,
                   collection_name, retriever, retrieved_docs, context, history, raw_answer,
                   validated, lastOp, nAppend, nOps>>
    /\ UNCHANGED <<legacyVars, threadVars>>

----------------------------------------------------------------------------
(* Direct calls of the history store and the registry, as the tests and the server make them *)

AddToHistory(s, u, a) ==
    /\ nAppend < MaxAppend
    /\ stores' = add_to_history(stores, s, u, a)
    /\ appended' = [appended EXCEPT ![s] = Append(Append(@, HumanMessage(u)), AIMessage(a))]
    /\ nAppend' = nAppend + 1
    /\ UNCHANGED <<chat_histories, session_collections, chroma, reqVars, completed, lastOp, nOps>>
    /\ UNCHANGED <<legacyVars, threadVars>>

ClearHistory(s) ==
    /\ stores' = clear_history(stores, s)
    /\ appended' = [appended EXCEPT ![s] = <<>>]
    /\ completed' = [completed EXCEPT ![s] = 0]
    /\ UNCHANGED <<chat_histories, session_collections, chroma, reqVars, lastOp, nAppend>>
    /\ UNCHANGED <<legacyVars, threadVars>>

GetChatHistoryList(s) ==
    /\ stores' = get_session_history(stores, s)
    /\ UNCHANGED <<chat_histories, session_collections, chroma, reqVars, ghostVars>>
    /\ UNCHANGED <<legacyVars, threadVars>>

\* chat_history.py:9-11 called directly
GetChatHistory(s) ==
    /\ lastOp' = [op |-> "get_chat_history", s |-> s, ret |-> get_chat_history(chat_histories, s)]
    /\ UNCHANGED <<storeVars, reqVars, appended, completed, nAppend, nOps>>
    /\ UNCHANGED <<legacyVars, threadVars>>

\* uploads.py:13-15 called directly
GetSessionCollection(s) ==
    /\ lastOp' = [op |-> "get_session_collection", s |-> s,
                  ret |-> get_session_collection(session_collections, s)]
    /\ UNCHANGED <<storeVars, reqVars, appended, completed, nAppend, nOps>>
    /\ UNCHANGED <<legacyVars, threadVars>>

SetSessionCollection(s, c) ==
    /\ session_collections' = set_session_collection(session_collections, s, c)
    /\ lastOp' = [op |-> "set_session_collection", s |-> s, c |-> c]
    /\ nOps < MaxOps
    /\ nOps' = nOps + 1
    /\ UNCHANGED <<chat_histories, stores, chroma, reqVars, appended, completed, nAppend>>
    /\ UNCHANGED <<legacyVars, threadVars>>

ClearSessionCollection(s) ==
    /\ session_collections' = clear_session_collection(session_collections, s)
    /\ lastOp' = [op |-> "clear_session_collection", s |-> s]
    /\ nOps < MaxOps
    /\ nOps' = nOps + 1
    /\ UNCHANGED <<chat_histories, stores, chroma, reqVars, appended, completed, nAppend>>
    /\ UNCHANGED <<legacyVars, threadVars>>

\* run_ingestion(year_dir): the year's corpus is written to the collection named by the year
RunIngestion(y) ==
    /\ chroma' = Put(chroma, Str(y), YearCorpus)
    /\ nOps < MaxOps
    /\ nOps' = nOps + 1
    /\ UNCHANGED <<chat_histories, stores, session_collections, reqVars, appended, completed,
                   lastOp, nAppend>>
    /\ UNCHANGED <<legacyVars, threadVars>>

\* server.py upload_rules_file: ingest the file into the session's collection, then register it
Upload(s) ==
    /\ chroma' = Put(chroma, UploadName(s), UploadCorpus)
    /\ session_collections' = set_session_collection(session_collections, s, UploadName(s))
    /\ lastOp' = [op |-> "set_session_collection", s |-> s, c |-> UploadName(s)]
    /\ nOps < MaxOps
    /\ nOps' = nOps + 1
    /\ UNCHANGED <<chat_histories, stores, reqVars, appended, completed, nAppend>>
    /\ UNCHANGED <<legacyVars, threadVars>>

----------------------------------------------------------------------------
(* The pipeline with the registry, the store and ingestion running beside it *)

Next ==
    \/ \E r \in Reqs, q \in Questions, s \in Sessions, y \in Years :
          (\A x \in Reqs : pc[x] = "idle") /\ Call(r, q, s, y)
    \/ \E r \in Reqs : InputCheck(r)
    \/ \E r \in Reqs : Route(r)
    \/ \E r \in Reqs : Retrieve(r)
    \/ \E r \in Reqs : RetrieveFail(r)
    \/ \E r \in Reqs, a \in Answers : Generate(r, a)
    \/ \E r \in Reqs : GenerateFail(r)
    \/ \E r \in Reqs : OutputCheck(r)
    \/ \E r \in Reqs : Record(r)
    \/ \E r \in Reqs : Finish(r)
    \/ \E s \in Sessions : nOps < MaxOps /\ nOps' = nOps + 1 /\ ClearHistory(s)
    \/ \E s \in Sessions, c \in OverrideNames : SetSessionCollection(s, c)
    \/ \E s \in Sessions : ClearSessionCollection(s)
    \/ \E y \in IngestedYears : RunIngestion(y)
    \/ \E s \in Sessions : Upload(s)

Spec == Init /\ [][Next]_vars

(* The history store alone, called directly *)

NextHistory ==
    \/ \E s \in Sessions, u \in UserMsgs, a \in AiMsgs : AddToHistory(s, u, a)
    \/ \E s \in Sessions : ClearHistory(s) /\ UNCHANGED nOps
    \/ \E s \in Sessions : GetChatHistoryList(s)

SpecHistory == Init /\ [][NextHistory]_vars

(* The pipeline together with the legacy get_answer of src/chain.py *)

NextLegacy ==
    \/ \E r \in Reqs, q \in Questions, s \in Sessions :
          (\A x \in Reqs : pc[x] = "idle") /\ LegacyCall(r, q, s)
    \/ \E r \in Reqs : LegacyInputCheck(r)
    \/ \E r \in Reqs, rr \in RouteResults : LegacyRoute(r, rr)
    \/ \E r \in Reqs : LegacyRouteFail(r)
    \/ \E r \in Reqs : LegacyTool(r)
    \/ \E r \in Reqs, rc \in RaceContexts : LegacyRaceTool(r, rc)
    \/ \E r \in Reqs : LegacyToolFail(r)
    \/ \E r \in Reqs, a \in Answers : LegacyGenerate(r, a)
    \/ \E r \in Reqs : LegacyGenerateFail(r)
    \/ \E r \in Reqs : LegacyOutputCheck(r)
    \/ \E r \in Reqs : LegacyRecord(r)
    \/ \E s \in Sessions : LegacyClearHistory(s)

SpecWithLegacy == Init /\ [][Next \/ NextLegacy]_vars

(* The two entry points of app/server.py that answer a question: get_answer behind /chat *)
(* and /ask, rag_chain behind /answer                                                     *)

NextServer ==
    \/ \E r \in Reqs, q \in Questions, s \in Sessions, y \in Years :
          (\A x \in Reqs : pc[x] = "idle") /\ Call(r, q, s, y)
    \/ \E r \in Reqs : InputCheck(r)
    \/ \E r \in Reqs : Route(r)
    \/ \E r \in Reqs : Retrieve(r)
    \/ \E r \in Reqs : RetrieveFail(r)
    \/ \E r \in Reqs, a \in Answers : Generate(r, a)
    \/ \E r \in Reqs : GenerateFail(r)
    \/ \E r \in Reqs : OutputCheck(r)
    \/ \E r \in Reqs : Record(r)
    \/ \E r \in Reqs : Finish(r)
    \/ \E r \in Reqs, q \in Questions, s \in Sessions, y \in Years :
          (\A x \in Reqs : pc[x] = "idle") /\ AnswerCall(r, q, s, y)
    \/ \E r \in Reqs : AnswerFetchContext(r)
    \/ \E r \in Reqs : AnswerFetchFail(r)
    \/ \E r \in Reqs, a \in Answers : AnswerGenerate(r, a)
    \/ \E r \in Reqs : AnswerGenerateFail(r)
    \/ \E r \in Reqs : AnswerRecord(r)
    \/ \E y \in IngestedYears : RunIngestion(y)
    \/ \E s \in Sessions : Upload(s)

SpecServer == Init /\ [][NextServer]_vars

(* The history store and the registry together, every operation called directly *)

NextStores ==
    \/ \E s \in Sessions, u \in UserMsgs, a \in AiMsgs :
          nAppend < MaxOps /\ AddToHistory(s, u, a)
    \/ \E s \in Sessions : ClearHistory(s) /\ UNCHANGED nOps
    \/ \E s \in Sessions : GetChatHistoryList(s)
    \/ \E s \in Sessions : GetChatHistory(s)
    \/ \E s \in Sessions, c \in OverrideNames : SetSessionCollection(s, c)
    \/ \E s \in Sessions : ClearSessionCollection(s)
    \/ \E s \in Sessions : GetSessionCollection(s)

SpecStores == Init /\ [][NextStores]_vars

----------------------------------------------------------------------------
(* src/chain/chat_history.py run by several threads: add_to_history and             *)
(* get_chat_history_list take no lock, so a thread can be preempted between any two *)
(* statements. With two threads an object replaced in stores has one holder at most. *)

\* the statements of get_session_history (chat_history.py:31-35) inside add_to_history
AddPcs == {"ADD_CALLED", "ADD_MISSING", "ADD_PRESENT", "ADD_HANDLE", "ADD_USER"}
ListPcs == {"LIST_CALLED", "LIST_MISSING", "LIST_PRESENT", "LIST_HANDLE"}

\* the messages of the object a thread holds
HandleMessages(r) ==
    IF handle[r] = Stored THEN stores[session_id[r]] ELSE handle[r].messages

\* chat_history.py:37 add_to_history(session_id, user_msg, ai_msg) is entered by a thread
AddCall(r, s, u, a) ==
    /\ pc[r] = "idle"
    /\ \A r2 \in Reqs : pc[r2] = "idle" => ReqOrder(r) <= ReqOrder(r2)
    /\ nOps < MaxOps
    /\ pc' = [pc EXCEPT ![r] = "ADD_CALLED"]
    /\ session_id' = [session_id EXCEPT ![r] = s]
    /\ question' = [question EXCEPT ![r] = u]
    /\ raw_answer' = [raw_answer EXCEPT ![r] = a]
    /\ nOps' = nOps + 1
    /\ UNCHANGED <<storeVars, year, collection_name, retriever, retrieved_docs, context, history,
                   validated, result, calls, appended, completed, lastOp, nAppend>>
    /\ UNCHANGED <<legacyVars, threadVars>>

\* chat_history.py:42 get_chat_history_list(session_id) is entered by a thread
ListCall(r, s) ==
    /\ pc[r] = "idle"
    /\ \A r2 \in Reqs : pc[r2] = "idle" => ReqOrder(r) <= ReqOrder(r2)
    /\ nOps < MaxOps
    /\ pc' = [pc EXCEPT ![r] = "LIST_CALLED"]
    /\ session_id' = [session_id EXCEPT ![r] = s]
    /\ nOps' = nOps + 1
    /\ UNCHANGED <<storeVars, question, year, collection_name, retriever, retrieved_docs, context,
                   history, raw_answer, validated, result, calls, appended, completed, lastOp,
                   nAppend>>
    /\ UNCHANGED <<legacyVars, threadVars>>

\* chain.py:145 get_answer enters add_to_history(session_id, question, raw_answer)
RecordCall(r) ==
    /\ pc[r] = "OUTPUT_CHECKED"
    /\ pc' = [pc EXCEPT ![r] = "ADD_CALLED"]
    /\ calls' = [calls EXCEPT ![r] = Append(@, "add_to_history")]
    /\ UNCHANGED <<storeVars, question, session_id, year, collection_name, retriever,
                   retrieved_docs, context, history, raw_answer, validated, result, ghostVars>>
    /\ UNCHANGED <<legacyVars, threadVars>>

\* chat_history.py:33 `if session_id not in stores`
SessionLookup(r) ==
    /\ pc[r] \in {"ADD_CALLED", "LIST_CALLED"}
    /\ pc' = [pc EXCEPT ![r] =
           CASE pc[r] = "ADD_CALLED" /\ session_id[r] \notin DOMAIN stores -> "ADD_MISSING"
             [] pc[r] = "ADD_CALLED" /\ session_id[r] \in DOMAIN stores -> "ADD_PRESENT"
             [] pc[r] = "LIST_CALLED" /\ session_id[r] \notin DOMAIN stores -> "LIST_MISSING"
             [] pc[r] = "LIST_CALLED" /\ session_id[r] \in DOMAIN stores -> "LIST_PRESENT"]
    /\ UNCHANGED <<storeVars, question, session_id, year, collection_name, retriever,
                   retrieved_docs, context, history, raw_answer, validated, result, calls,
                   ghostVars>>
    /\ UNCHANGED <<legacyVars, threadVars>>

\* chat_history.py:34 `stores[session_id] = ChatMessageHistory()`: whatever object the key
\* referred to is replaced, and a thread that holds it keeps writing to the replaced object
SessionCreate(r) ==
    /\ pc[r] \in {"ADD_MISSING", "LIST_MISSING"}
    /\ stores' = Put(stores, session_id[r], <<>>)
    /\ handle' = [x \in Reqs |->
           IF x # r /\ handle[x] = Stored /\ session_id[x] = session_id[r]
             THEN Orphan(stores[session_id[r]])
             ELSE handle[x]]
    /\ pc' = [pc EXCEPT ![r] = IF pc[r] = "ADD_MISSING" THEN "ADD_PRESENT" ELSE "LIST_PRESENT"]
    /\ UNCHANGED <<chat_histories, session_collections, chroma, question, session_id, year,
                   collection_name, retriever, retrieved_docs, context, history, raw_answer,
                   validated, result, calls, ghostVars>>
    /\ UNCHANGED <<legacyVars, lock, reg_log>>

\* chat_history.py:35 `return stores[session_id]`
SessionReturn(r) ==
    /\ pc[r] \in {"ADD_PRESENT", "LIST_PRESENT"}
    /\ handle' = [handle EXCEPT ![r] = Stored]
    /\ pc' = [pc EXCEPT ![r] = IF pc[r] = "ADD_PRESENT" THEN "ADD_HANDLE" ELSE "LIST_HANDLE"]
    /\ UNCHANGED <<storeVars, question, session_id, year, collection_name, retriever,
                   retrieved_docs, context, history, raw_answer, validated, result, calls,
                   ghostVars>>
    /\ UNCHANGED <<legacyVars, lock, reg_log>>

\* history.messages.append(message) on the object the thread holds
AppendMessage(r, message) ==
    IF handle[r] = Stored
      THEN /\ stores' = [stores EXCEPT ![session_id[r]] = Append(@, message)]
           /\ UNCHANGED handle
      ELSE /\ handle' = [handle EXCEPT ![r] = Orphan(Append(@.messages, message))]
           /\ UNCHANGED stores

\* chat_history.py:39 history.add_user_message(user_msg)
AddUserMessage(r) ==
    /\ pc[r] = "ADD_HANDLE"
    /\ AppendMessage(r, HumanMessage(question[r]))
    /\ pc' = [pc EXCEPT ![r] = "ADD_USER"]
    /\ UNCHANGED <<chat_histories, session_collections, chroma, question, session_id, year,
                   collection_name, retriever, retrieved_docs, context, history, raw_answer,
                   validated, result, calls, ghostVars>>
    /\ UNCHANGED <<legacyVars, lock, reg_log>>

\* chat_history.py:40 history.add_ai_message(ai_msg); add_to_history returns, and inside
\* get_answer the result of chain.py:147-151 is returned
AddAiMessage(r) ==
    /\ pc[r] = "ADD_USER"
    /\ AppendMessage(r, AIMessage(raw_answer[r]))
    /\ pc' = [pc EXCEPT ![r] = "DONE"]
    /\ result' = [result EXCEPT ![r] =
           IF calls[r] = <<>>
             THEN Returned(None)
             ELSE Returned([answer |-> validated[r][1],
                            sources |-> SourcesOf(retrieved_docs[r]),
                            validation_info |-> validated[r][2]])]
    /\ appended' = [appended EXCEPT ![session_id[r]] =
           Append(Append(@, HumanMessage(question[r])), AIMessage(raw_answer[r]))]
    /\ completed' = [completed EXCEPT ![session_id[r]] = IF calls[r] = <<>> THEN @ ELSE @ + 1]
    /\ UNCHANGED <<chat_histories, session_collections, chroma, question, session_id, year,
                   collection_name, retriever, retrieved_docs, context, history, raw_answer,
                   validated, calls, lastOp, nAppend, nOps>>
    /\ UNCHANGED <<legacyVars, lock, reg_log>>

\* chat_history.py:43-44 `return hist.messages`: what the reader sees
ListMessages(r) ==
    /\ pc[r] = "LIST_HANDLE"
    /\ result' = [result EXCEPT ![r] = Returned(HandleMessages(r))]
    /\ lastOp' = [op |-> "get_chat_history_list", s |-> session_id[r],
                  ret |-> HandleMessages(r)]
    /\ pc' = [pc EXCEPT ![r] = "DONE"]
    /\ UNCHANGED <<storeVars, question, session_id, year, collection_name, retriever,
                   retrieved_docs, context, history, raw_answer, validated, calls, appended,
                   completed, nAppend, nOps>>
    /\ UNCHANGED <<legacyVars, threadVars>>

(* Requests and direct callers of the history store on concurrent threads *)

NextThreads ==
    \/ \E r \in Reqs, q \in Questions, s \in Sessions, y \in IngestedYears : Call(r, q, s, y)
    \/ \E r \in Reqs : InputCheck(r)
    \/ \E r \in Reqs : Route(r)
    \/ \E r \in Reqs : Retrieve(r)
    \/ \E r \in Reqs : RetrieveFail(r)
    \/ \E r \in Reqs : Generate(r, A_drs)
    \/ \E r \in Reqs : GenerateFail(r)
    \/ \E r \in Reqs : OutputCheck(r)
    \/ \E r \in Reqs : RecordCall(r)
    \/ \E r \in Reqs, s \in Sessions, u \in UserMsgs, a \in AiMsgs : AddCall(r, s, u, a)
    \/ \E r \in Reqs, s \in Sessions : ListCall(r, s)
    \/ \E r \in Reqs : SessionLookup(r)
    \/ \E r \in Reqs : SessionCreate(r)
    \/ \E r \in Reqs : SessionReturn(r)
    \/ \E r \in Reqs : AddUserMessage(r)
    \/ \E r \in Reqs : AddAiMessage(r)
    \/ \E r \in Reqs : ListMessages(r)
    \/ \E r \in Reqs : Finish(r)

SpecThreads == Init /\ [][NextThreads]_vars

----------------------------------------------------------------------------
(* src/tools/uploads.py run by several threads: each of the three functions is one *)
(* `with _lock:` block around one dict operation. A call is entered, waits for the *)
(* lock, runs its body, and leaves the block, which releases the lock.             *)

WaitPcs == {"SET_WAIT", "GET_WAIT", "CLEAR_WAIT", "INPUT_CHECKED"}
LockedPcs == {"SET_LOCKED", "GET_LOCKED", "CLEAR_LOCKED", "SET_LEAVING", "GET_LEAVING",
              "CLEAR_LEAVING"}
\* a call to the vector index, to ingestion or to the generator is in progress
ExternalPcs == {"INGESTING", "RETRIEVING", "GENERATING"}

\* uploads.py:8 set_session_collection(session_id, collection_name) is entered by a thread
SetCall(r, s, c) ==
    /\ pc[r] = "idle"
    /\ \A r2 \in Reqs : pc[r2] = "idle" => ReqOrder(r) <= ReqOrder(r2)
    /\ nOps < MaxOps
    /\ pc' = [pc EXCEPT ![r] = "SET_WAIT"]
    /\ session_id' = [session_id EXCEPT ![r] = s]
    /\ collection_name' = [collection_name EXCEPT ![r] = c]
    /\ nOps' = nOps + 1
    /\ UNCHANGED <<storeVars, question, year, retriever, retrieved_docs, context, history,
                   raw_answer, validated, result, calls, appended, completed, lastOp, nAppend>>
    /\ UNCHANGED <<legacyVars, threadVars>>

\* uploads.py:13 get_session_collection(session_id) or uploads.py:18
\* clear_session_collection(session_id) is entered by a thread
GetOrClearCall(r, s, op) ==
    /\ pc[r] = "idle"
    /\ \A r2 \in Reqs : pc[r2] = "idle" => ReqOrder(r) <= ReqOrder(r2)
    /\ nOps < MaxOps
    /\ pc' = [pc EXCEPT ![r] = IF op = "get" THEN "GET_WAIT" ELSE "CLEAR_WAIT"]
    /\ session_id' = [session_id EXCEPT ![r] = s]
    /\ nOps' = nOps + 1
    /\ UNCHANGED <<storeVars, question, year, collection_name, retriever, retrieved_docs, context,
                   history, raw_answer, validated, result, calls, appended, completed, lastOp,
                   nAppend>>
    /\ UNCHANGED <<legacyVars, threadVars>>

\* server.py:115-150 upload_rules_file: ingest_pdf_to_collection is called
UploadCall(r, s) ==
    /\ pc[r] = "idle"
    /\ \A r2 \in Reqs : pc[r2] = "idle" => ReqOrder(r) <= ReqOrder(r2)
    /\ nOps < MaxOps
    /\ pc' = [pc EXCEPT ![r] = "INGESTING"]
    /\ session_id' = [session_id EXCEPT ![r] = s]
    /\ collection_name' = [collection_name EXCEPT ![r] = UploadName(s)]
    /\ calls' = [calls EXCEPT ![r] = Append(@, "ingestion")]
    /\ nOps' = nOps + 1
    /\ UNCHANGED <<storeVars, question, year, retriever, retrieved_docs, context, history,
                   raw_answer, validated, result, appended, completed, lastOp, nAppend>>
    /\ UNCHANGED <<legacyVars, threadVars>>

\* server.py:150-151 ingestion has written the collection; set_session_collection is entered
UploadIngested(r) ==
    /\ pc[r] = "INGESTING"
    /\ chroma' = Put(chroma, collection_name[r], UploadCorpus)
    /\ pc' = [pc EXCEPT ![r] = "SET_WAIT"]
    /\ UNCHANGED <<chat_histories, stores, session_collections, question, session_id, year,
                   collection_name, retriever, retrieved_docs, context, history, raw_answer,
                   validated, result, calls, ghostVars>>
    /\ UNCHANGED <<legacyVars, threadVars>>

\* `with _lock:` is entered (uploads.py:9, 14, 19); get_answer enters it through
\* get_session_collection at chain.py:115
Acquire(r) ==
    /\ pc[r] \in WaitPcs
    /\ lock = None
    /\ lock' = r
    /\ pc' = [pc EXCEPT ![r] = CASE pc[r] = "SET_WAIT" -> "SET_LOCKED"
                                 [] pc[r] = "CLEAR_WAIT" -> "CLEAR_LOCKED"
                                 [] OTHER -> "GET_LOCKED"]
    /\ UNCHANGED <<storeVars, question, session_id, year, collection_name, retriever,
                   retrieved_docs, context, history, raw_answer, validated, result, calls,
                   ghostVars>>
    /\ UNCHANGED <<legacyVars, reg_log, handle>>

\* uploads.py:10 `_session_collections[session_id] = collection_name`
SetLocked(r) ==
    /\ pc[r] = "SET_LOCKED"
    /\ session_collections' =
           set_session_collection(session_collections, session_id[r], collection_name[r])
    /\ reg_log' = Append(reg_log, [op |-> "set", s |-> session_id[r], v |-> collection_name[r],
                                   r |-> r])
    /\ pc' = [pc EXCEPT ![r] = "SET_LEAVING"]
    /\ UNCHANGED <<chat_histories, stores, chroma, question, session_id, year, collection_name,
                   retriever, retrieved_docs, context, history, raw_answer, validated, result,
                   calls, ghostVars>>
    /\ UNCHANGED <<legacyVars, lock, handle>>

\* uploads.py:15 `return _session_collections.get(session_id)`
GetLocked(r) ==
    /\ pc[r] = "GET_LOCKED"
    /\ collection_name' = [collection_name EXCEPT ![r] =
           get_session_collection(session_collections, session_id[r])]
    /\ reg_log' = Append(reg_log, [op |-> "get", s |-> session_id[r],
                                   v |-> collection_name'[r], r |-> r])
    /\ pc' = [pc EXCEPT ![r] = "GET_LEAVING"]
    /\ UNCHANGED <<storeVars, question, session_id, year, retriever, retrieved_docs, context,
                   history, raw_answer, validated, result, calls, ghostVars>>
    /\ UNCHANGED <<legacyVars, lock, handle>>

\* uploads.py:20 `_session_collections.pop(session_id, None)`
ClearLocked(r) ==
    /\ pc[r] = "CLEAR_LOCKED"
    /\ session_collections' = clear_session_collection(session_collections, session_id[r])
    /\ reg_log' = Append(reg_log, [op |-> "clear", s |-> session_id[r], v |-> None, r |-> r])
    /\ pc' = [pc EXCEPT ![r] = "CLEAR_LEAVING"]
    /\ UNCHANGED <<chat_histories, stores, chroma, question, session_id, year, collection_name,
                   retriever, retrieved_docs, context, history, raw_answer, validated, result,
                   calls, ghostVars>>
    /\ UNCHANGED <<legacyVars, lock, handle>>

\* the `with` block is left and the call returns: to get_answer, which binds the retriever
\* (chain.py:118-123), to upload_rules_file, which answers (server.py:154-161), or to the
\* thread that called the registry
Release(r) ==
    /\ pc[r] \in {"SET_LEAVING", "GET_LEAVING", "CLEAR_LEAVING"}
    /\ lock' = None
    /\ IF pc[r] = "GET_LEAVING" /\ calls[r] # <<>>
         THEN /\ pc' = [pc EXCEPT ![r] = "ROUTED"]
              /\ retriever' = [retriever EXCEPT ![r] = RouteTo(collection_name[r], year[r])]
              /\ calls' = [calls EXCEPT ![r] = Append(@, "get_session_collection")]
              /\ UNCHANGED result
         ELSE /\ pc' = [pc EXCEPT ![r] = "DONE"]
              /\ result' = [result EXCEPT ![r] = Returned(
                     CASE pc[r] = "GET_LEAVING" -> collection_name[r]
                       [] pc[r] = "SET_LEAVING" /\ calls[r] # <<>> ->
                            [message |-> "Upload complete", session_id |-> session_id[r],
                             collection_name |-> collection_name[r]]
                       [] OTHER -> None)]
              /\ UNCHANGED <<retriever, calls>>
    /\ UNCHANGED <<storeVars, question, session_id, year, collection_name, retrieved_docs,
                   context, history, raw_answer, validated, ghostVars>>
    /\ UNCHANGED <<legacyVars, reg_log, handle>>

\* chain.py:118-125 the retriever's query is sent to the vector index
RetrieveBegin(r) ==
    /\ pc[r] = "ROUTED"
    /\ pc' = [pc EXCEPT ![r] = "RETRIEVING"]
    /\ calls' = [calls EXCEPT ![r] = Append(@, "vector_index")]
    /\ UNCHANGED <<storeVars, question, session_id, year, collection_name, retriever,
                   retrieved_docs, context, history, raw_answer, validated, result, ghostVars>>
    /\ UNCHANGED <<legacyVars, threadVars>>

\* chain.py:125-131 the vector index has answered
RetrieveEnd(r) ==
    /\ pc[r] = "RETRIEVING"
    /\ chroma' = OpenCollection(chroma, retriever[r])
    /\ retrieved_docs' = [retrieved_docs EXCEPT ![r] = Query(chroma', retriever[r], K)]
    /\ context' = [context EXCEPT ![r] = ContextOf(retrieved_docs'[r])]
    /\ pc' = [pc EXCEPT ![r] = "RETRIEVED"]
    /\ UNCHANGED <<chat_histories, stores, session_collections, question, session_id, year,
                   collection_name, retriever, history, raw_answer, validated, result, calls,
                   ghostVars>>
    /\ UNCHANGED <<legacyVars, threadVars>>

\* chain.py:133-137 the history is loaded and the prompt is sent to the generator
GenerateBegin(r) ==
    /\ pc[r] = "RETRIEVED"
    /\ history' = [history EXCEPT ![r] = get_chat_history(chat_histories, session_id[r])]
    /\ pc' = [pc EXCEPT ![r] = "GENERATING"]
    /\ calls' = [calls EXCEPT ![r] = Append(@, "generator")]
    /\ UNCHANGED <<storeVars, question, session_id, year, collection_name, retriever,
                   retrieved_docs, context, raw_answer, validated, result, ghostVars>>
    /\ UNCHANGED <<legacyVars, threadVars>>

\* chain.py:137-142 the generator has answered a
GenerateEnd(r, a) ==
    /\ pc[r] = "GENERATING"
    /\ raw_answer' = [raw_answer EXCEPT ![r] = a]
    /\ pc' = [pc EXCEPT ![r] = "GENERATED"]
    /\ UNCHANGED <<storeVars, question, session_id, year, collection_name, retriever,
                   retrieved_docs, context, history, validated, result, calls, ghostVars>>
    /\ UNCHANGED <<legacyVars, threadVars>>

(* Requests, uploads and direct callers of the registry on concurrent threads *)

NextRegistry ==
    \/ \E r \in Reqs, q \in Questions, s \in Sessions, y \in IngestedYears : Call(r, q, s, y)
    \/ \E r \in Reqs : InputCheck(r)
    \/ \E r \in Reqs, s \in Sessions, c \in OverrideNames : SetCall(r, s, c)
    \/ \E r \in Reqs, s \in Sessions, op \in {"get", "clear"} : GetOrClearCall(r, s, op)
    \/ \E r \in Reqs, s \in Sessions : UploadCall(r, s)
    \/ \E r \in Reqs : UploadIngested(r)
    \/ \E r \in Reqs : Acquire(r)
    \/ \E r \in Reqs : SetLocked(r)
    \/ \E r \in Reqs : GetLocked(r)
    \/ \E r \in Reqs : ClearLocked(r)
    \/ \E r \in Reqs : Release(r)
    \/ \E r \in Reqs : RetrieveBegin(r)
    \/ \E r \in Reqs : RetrieveEnd(r)
    \/ \E r \in Reqs : GenerateBegin(r)
    \/ \E r \in Reqs : GenerateEnd(r, A_drs)
    \/ \E r \in Reqs : OutputCheck(r)
    \/ \E r \in Reqs : Record(r)
    \/ \E r \in Reqs : Finish(r)

SpecRegistry == Init /\ [][NextRegistry]_vars

----------------------------------------------------------------------------
(* The functions of the ingestion pipeline and of the guards, called on their own *)

\* everything but lastOp: a function call leaves the stores and the requests alone. The
\* functions keep no state, so a behaviour makes one call: its arguments decide the result
callVars == <<storeVars, reqVars, appended, completed, nAppend, nOps, legacyVars, threadVars>>

NoDoc == [page_content |-> <<>>, metadata |-> EmptyDict]

\* chunk.py:30-83 from the token splitter's output on: one or two windows
ChunkFiaDocument(cs, d1, d2, file_metadata) ==
    /\ LET docs == IF d2 = NoDoc THEN <<d1>> ELSE <<d1, d2>>
       IN lastOp' = [op |-> "chunk_fia_document",
                     chunk_size |-> cs,
                     window_tokens |-> [i \in 1..Len(docs) |-> token_len(docs[i].page_content)],
                     ret |-> chunk_fia_document(docs, file_metadata)]
    /\ UNCHANGED callVars

\* ingest.py:188-191: the ids of two chunks, each at its ordinal index
GenerateChunkIds(d1, i, d2, j) ==
    /\ lastOp' = [op |-> "generate_chunk_id",
                  first |-> [doc |-> d1, index |-> i, ret |-> generate_chunk_id(d1, i)],
                  second |-> [doc |-> d2, index |-> j, ret |-> generate_chunk_id(d2, j)]]
    /\ UNCHANGED callVars

\* file.py:29-61 called on a text
NormalizeFileMarkdown(md) ==
    /\ lastOp' = [op |-> "normalize_file_markdown", md |-> md, ret |-> normalize_file_markdown(md)]
    /\ UNCHANGED callVars

\* checks.py:38-80 called on a question
ValidateInput(query) ==
    /\ lastOp' = [op |-> "validate_input", query |-> query,
                  detected |-> detect_prompt_injection(query), ret |-> validate_input(query)]
    /\ UNCHANGED callVars

\* checks.py:152-177 called on an answer and its sources, with what the two functions it
\* calls return for them; a sources of None takes the branches of the empty list
ValidateOutput(answer, sources) ==
    /\ lastOp' = [op |-> "validate_output", answer |-> answer, sources |-> sources,
                  grounding |-> check_source_grounding(answer, sources),
                  cited |-> add_source_citations(answer, sources),
                  ret |-> validate_output(answer, sources)]
    /\ UNCHANGED callVars

NextFunctions ==
    \/ lastOp = NoOp /\
          \E answer \in GuardAnswers, sources \in SourceLists(MaxSources) :
              ValidateOutput(answer, sources)
    \/ lastOp = NoOp /\ \E query \in Queries(MaxPhrases) : ValidateInput(query)
    \/ lastOp = NoOp /\ \E md \in Texts(MaxFragments) : NormalizeFileMarkdown(md)
    \/ lastOp = NoOp /\
          \E d1 \in ChunkDocs, d2 \in ChunkDocs, i \in 0..MaxIndex, j \in 0..MaxIndex :
              GenerateChunkIds(d1, i, d2, j)
    \/ lastOp = NoOp /\
          \E cs \in ChunkSizes, fm \in FileMetadatas :
              \E d1 \in SplitDocuments(cs), d2 \in SplitDocuments(cs) \cup {NoDoc} :
                  ChunkFiaDocument(cs, d1, d2, fm)

SpecFunctions == Init /\ [][NextFunctions]_vars

----------------------------------------------------------------------------
(* The functions of ingestion that read file names and directories, called on their own *)

\* file.py:4-27 called on a path; built tells how the path was put together
ExtractMetadataFromFilename(file_path, stem, parts, free) ==
    /\ lastOp' = [op |-> "extract_metadata_from_filename", file_path |-> file_path,
                  stem |-> stem, parts |-> parts, free |-> free,
                  ret |-> extract_metadata_from_filename(file_path)]
    /\ UNCHANGED callVars

\* ingest.py:160-200 run on a directory, and run again on a directory that still holds
\* the files of the second listing
RunIngestion2(listing, again) ==
    /\ lastOp' = [op |-> "run_ingestion",
                  first |-> run_ingestion(listing),
                  second |-> run_ingestion(again)]
    /\ UNCHANGED callVars

\* chunk.py:30-83 called for a file, from the token splitter's output on
ChunkFile(file_path, docs) ==
    /\ lastOp' = [op |-> "chunk_file", file_path |-> file_path, docs |-> docs,
                  file_metadata |-> extract_metadata_from_filename(file_path),
                  ret |-> chunk_fia_document(docs, extract_metadata_from_filename(file_path))]
    /\ UNCHANGED callVars

NextIngestion ==
    \/ lastOp = NoOp /\
          \E listing \in Listings :
              \E again \in {listing, <<listing[1]>>, <<listing[Len(listing)]>>,
                             [i \in 1..Len(listing) |-> listing[Len(listing) + 1 - i]]} :
                  RunIngestion2(listing, again)
    \/ lastOp = NoOp /\
          \E file_path \in ChunkedPaths, d1 \in HeadedDocuments,
             d2 \in HeadedDocuments \cup {NoDoc} :
              ChunkFile(file_path, IF d2 = NoDoc THEN <<d1>> ELSE <<d1, d2>>)
    \/ lastOp = NoOp /\
          \E n \in NameParts : ExtractMetadataFromFilename(PathOf(n), StemOf(n), n, FALSE)
    \/ lastOp = NoOp /\
          \E f \in FreeFormPaths : ExtractMetadataFromFilename(f[1], f[2], <<>>, TRUE)

SpecIngestion == Init /\ [][NextIngestion]_vars

----------------------------------------------------------------------------
(* Properties *)

\* get_answer call r has invoked the collaborator
Invoked(r, what) == \E i \in 1..Len(calls[r]) : calls[r][i] = what
\* how many times
TimesInvoked(r, what) == Cardinality({i \in 1..Len(calls[r]) : calls[r][i] = what})

\* C1: after 11 successive add_to_history calls on an empty session, get_chat_history
\* returns 20 messages, the 10 most recent exchanges in insertion order
C1_ReadAfterAppend ==
    \A s \in Sessions :
        Len(appended[s]) = 2 * 11 =>
            /\ Len(get_chat_history(chat_histories, s)) = 20
            /\ get_chat_history(chat_histories, s) = LastN(appended[s], 20)

\* C2: the message sequence add_to_history writes to never holds more than 20 messages
C2_HistoryCap ==
    \A s \in DOMAIN stores : Len(stores[s]) <= 20

\* C3: after add_to_history calls with no clear in between, get_chat_history is
\* non-empty and ends with the user and assistant messages of the last call
C3_AppendObservable ==
    \A s \in Sessions :
        appended[s] # <<>> =>
            LET h == get_chat_history(chat_histories, s)
                a == appended[s]
            IN /\ Len(h) >= 2
               /\ h[Len(h) - 1] = a[Len(a) - 1]
               /\ h[Len(h)] = a[Len(a)]

\* C4: after two completed get_answer calls of a session with no clear in between,
\* get_chat_history of the session has length 4
C4_HistoryGrowth ==
    \A s \in Sessions :
        completed[s] = 2 => Len(get_chat_history(chat_histories, s)) = 4

\* C5: right after set_session_collection(s, c), get_session_collection(s) is c, also when
\* s had an override before; right after clear_session_collection(s) it is None, whether
\* or not s had one
C5_RegistryRoundTrip ==
    /\ lastOp.op = "set_session_collection" =>
           get_session_collection(session_collections, lastOp.s) = lastOp.c
    /\ lastOp.op = "clear_session_collection" =>
           get_session_collection(session_collections, lastOp.s) = None

\* a clear has acted while another session holds an override a set wrote
C5_Witness ==
    /\ lastOp.op = "clear_session_collection"
    /\ \E t \in Sessions : t # lastOp.s /\ get_session_collection(session_collections, t) # None

\* C6: a non-blocked get_answer queries the override collection c, for any string c, when the
\* registry held c for the session at the lookup, and str(year) exactly when it held none;
\* it issues one query
C6_Routing ==
    \A r \in Reqs :
        Invoked(r, "get_session_collection") =>
            /\ retriever[r] = (IF collection_name[r] # None THEN collection_name[r]
                                                             ELSE Str(year[r]))
            /\ TimesInvoked(r, "vector_index") <= 1

\* C7: a question validate_input rejects ends get_answer with input_blocked, the reason
\* and no sources, and with no registry lookup, no vector-index query and no generation
C7_BlockedTerminal ==
    \A r \in Reqs :
        (pc[r] \notin {"idle", "RECEIVED"} /\ ~validate_input(question[r])[1]) =>
            /\ pc[r] = "BLOCKED"
            /\ result[r].kind = "return"
            /\ result[r].value.validation_info =
                   [input_blocked |-> TRUE, reason |-> validate_input(question[r])[2]]
            /\ result[r].value.sources = <<>>
            /\ calls[r] = <<"validate_input">>

C7_Witness ==
    \E r \in Reqs : pc[r] = "BLOCKED" /\ Contains(injection_patterns[5], Lower(question[r]))

\* C8: a step of get_answer (src/chain/chain.py or the legacy src/chain.py) changes a chat
\* history only when it is the add_to_history that follows validate_output; a blocked or
\* failed call has not called add_to_history
C8_HistoryAfterOutputCheck ==
    [][/\ \A r \in Reqs :
              pc'[r] # pc[r] =>
                  \/ /\ pc[r] \in {"OUTPUT_CHECKED", "L_OUTPUT_CHECKED"}
                     /\ calls[r][Len(calls[r])] = "validate_output"
                     /\ calls'[r] = Append(calls[r], "add_to_history")
                  \/ UNCHANGED <<stores, chat_histories, legacy_chat_histories>>
       /\ \A r \in Reqs :
              pc'[r] \in {"BLOCKED", "ERROR", "ROUTE_ERROR"} => ~Invoked(r, "add_to_history")']_vars

\* a call has failed while earlier calls' exchanges are on record in both stores
C8_Witness ==
    \E r \in Reqs :
        /\ pc[r] \in {"ERROR", "ROUTE_ERROR"}
        /\ \E s \in DOMAIN stores : Len(stores[s]) = 2
        /\ \E s \in DOMAIN legacy_chat_histories : Len(legacy_chat_histories[s]) = 2

\* C9: when a collaborator raises, get_answer still returns a result with answer, sources
\* and validation_info
C9_ErrorBoundary ==
    \A r \in Reqs :
        pc[r] = "ERROR" =>
            /\ result[r].kind = "return"
            /\ DOMAIN result[r].value = {"answer", "sources", "validation_info"}

\* the collection holds no document: it does not exist or was opened but never written
NeverWritten(c) == c \notin DOMAIN chroma \/ chroma[c] = <<>>

\* C10: a query of a collection that was never written returns no documents, the context is
\* empty, and get_answer goes on to return sources [] with is_grounded True, grounding_score 1.0, has_citations False
C10_EmptyCollection ==
    \A r \in Reqs :
        (pc[r] \in {"RETRIEVED", "GENERATED", "OUTPUT_CHECKED", "DONE"}
            /\ NeverWritten(retriever[r])) =>
            /\ retrieved_docs[r] = <<>>
            /\ context[r] = <<>>
            /\ pc[r] \in {"OUTPUT_CHECKED", "DONE"} =>
                   validated[r][2] = [is_grounded |-> TRUE, grounding_score |-> Score(1, 1),
                                      has_citations |-> FALSE]
            /\ pc[r] = "DONE" =>
                   /\ result[r].kind = "return"
                   /\ result[r].value.sources = <<>>
                   /\ result[r].value.validation_info =
                          [is_grounded |-> TRUE, grounding_score |-> Score(1, 1),
                           has_citations |-> FALSE]

\* a call has returned after querying the nonexistent override collection
C10_Witness ==
    \E r \in Reqs :
        /\ pc[r] = "DONE"
        /\ retriever[r] = "nonexistent"
        /\ NeverWritten(retriever[r])

\* C11: every chunk chunk_fia_document returns, truncated or not, has at most 480 tokens
\* by the pipeline's own count
C11_TokenCeiling ==
    lastOp.op = "chunk_fia_document" =>
        \A i \in 1..Len(lastOp.ret) : token_len(lastOp.ret[i].page_content) <= 480

\* what generate_chunk_id is said to depend on: source, rule id or empty string, index
IdInputs(call) ==
    <<Get(call.doc.metadata, "source", <<>>), Get(call.doc.metadata, "rule_id", <<>>), call.index>>

\* C12: two chunks with the same source, the same rule id (or none) and the same index get
\* the same id whatever else differs; with the same source and rule id, different indices
\* give different ids
C12_ChunkIdDeterminism ==
    lastOp.op = "generate_chunk_id" =>
        LET a == IdInputs(lastOp.first)
            b == IdInputs(lastOp.second)
        IN /\ a = b => lastOp.first.ret = lastOp.second.ret
           /\ (a[1] = b[1] /\ a[2] = b[2] /\ a[3] # b[3]) => lastOp.first.ret # lastOp.second.ret

\* chunks of different text and headings got one id, and the same chunk got another id at
\* another index
C12_Witness ==
    /\ lastOp.op = "generate_chunk_id"
    /\ lastOp.first.doc.page_content # lastOp.second.doc.page_content
    /\ DOMAIN lastOp.first.doc.metadata # DOMAIN lastOp.second.doc.metadata
    /\ "rule_id" \in DOMAIN lastOp.first.doc.metadata
    /\ lastOp.first.index = 10
    /\ lastOp.first.ret = lastOp.second.ret

\* C13: normalizing a normalized text changes nothing
C13_NormalizerIdempotent ==
    lastOp.op = "normalize_file_markdown" => normalize_file_markdown(lastOp.ret) = lastOp.ret

\* the patterns of the list that occur in the lowercased question
Matching(query) ==
    {i \in 1..Len(injection_patterns) : Contains(injection_patterns[i], Lower(query))}

\* C14: detect_prompt_injection answers not-safe exactly when the lowercased question holds
\* a pattern of the list; validate_input then returns False with the reason that names the
\* first such pattern in list order, and valid otherwise
C14_InjectionDetection ==
    lastOp.op = "validate_input" =>
        LET hits == Matching(lastOp.query)
        IN /\ lastOp.detected[1] = (hits = {})
           /\ lastOp.ret[1] = (hits = {})
           /\ hits # {} =>
                  \E i \in hits :
                      /\ \A j \in hits : i <= j
                      /\ lastOp.ret[2] = <<"Potential prompt injection detected: '">>
                                          \o injection_patterns[i] \o <<"'">>

\* a question in capitals that holds two patterns, the later one of the list first
C14_Witness ==
    /\ lastOp.op = "validate_input"
    /\ Matching(lastOp.query) = {5, 8}
    /\ lastOp.query[1] = "S"
    /\ ~lastOp.ret[1]

\* the distinct lowercase words of the answer that are not stopwords
Keywords(answer) == Words(Lower(answer)) \ stopwords

\* how many of them occur in the lowercase texts of the sources joined by spaces
Overlap(answer, sources) ==
    LET source_text == Join(<<" ">>, [i \in 1..Len(sources) |-> Lower(sources[i].page_content)])
    IN Cardinality({w \in Keywords(answer) : Contains(w, source_text)})

\* C15 as amended: for non-empty sources and an answer with at least one keyword, the score
\* is overlap / keywords, grounded iff score >= 0.30, and no overlap gives 0.0 and not
\* grounded; an answer without keywords gives grounded and 1.0; the score lies in [0, 1]
C15_GroundingScore ==
    (lastOp.op = "validate_output" /\ lastOp.sources # <<>>) =>
        LET total == Cardinality(Keywords(lastOp.answer))
            n == Overlap(lastOp.answer, lastOp.sources)
            g == lastOp.grounding
        IN /\ g[2].den > 0 /\ 0 <= g[2].num /\ g[2].num <= g[2].den
           /\ total > 0 =>
                  /\ g[2].num * total = n * g[2].den
                  /\ g[1] = (10 * n >= 3 * total)
                  /\ n = 0 => (g[2].num = 0 /\ ~g[1])
           /\ total = 0 => g = <<TRUE, Score(1, 1)>>

\* three of the ten keywords of the answer occur in the sources: the score is on the threshold
C15_Witness ==
    /\ lastOp.op = "validate_output"
    /\ lastOp.sources # <<>>
    /\ Cardinality(Keywords(lastOp.answer)) = 10
    /\ lastOp.grounding = <<TRUE, Score(3, 10)>>

\* C15 as stated: for non-empty sources the score is overlap / keywords, grounded iff
\* score >= 0.30, and an answer with no overlap gets 0.0 and not grounded
C15_ZeroOverlap ==
    (lastOp.op = "validate_output" /\ lastOp.sources # <<>>) =>
        LET total == Cardinality(Keywords(lastOp.answer))
            n == Overlap(lastOp.answer, lastOp.sources)
            g == lastOp.grounding
        IN /\ g[2].num * total = n * g[2].den
           /\ n = 0 => (g[2].num = 0 /\ ~g[1])
           /\ n > 0 => g[1] = (10 * n >= 3 * total)

\* C16: with no sources validate_output returns the answer as it is, grounded, score 1.0,
\* no citations
C16_EmptySourceDefault ==
    (lastOp.op = "validate_output" /\ lastOp.sources = <<>>) =>
        lastOp.ret = <<lastOp.answer,
                       [is_grounded |-> TRUE, grounding_score |-> Score(1, 1),
                        has_citations |-> FALSE]>>

\* no sources and an answer for which the grounding check on its own says not grounded, 0.0
C16_Witness ==
    /\ lastOp.op = "validate_output"
    /\ lastOp.sources = <<>>
    /\ lastOp.answer # <<>>
    /\ lastOp.grounding = <<FALSE, Score(0, 1)>>

\* C17: with sources, validate_output returns the caveat (only when the grounding check
\* said not grounded), then the answer, then the citation block, and has_citations is True
C17_CaveatThenCitations ==
    (lastOp.op = "validate_output" /\ lastOp.sources # <<>>) =>
        LET block == SubSeq(lastOp.cited, Len(lastOp.answer) + 1, Len(lastOp.cited))
        IN /\ block # <<>>
           /\ lastOp.ret[1] = (IF lastOp.grounding[1] THEN <<>> ELSE Caveat)
                                \o lastOp.answer \o block
           /\ (lastOp.ret[1][1] = Caveat[1]) = ~lastOp.grounding[1]
           /\ lastOp.ret[2].is_grounded = lastOp.grounding[1]
           /\ lastOp.ret[2].has_citations

\* an answer that is not grounded in its two sources carries the caveat in front
C17_Witness ==
    /\ lastOp.op = "validate_output"
    /\ Len(lastOp.sources) = 2
    /\ lastOp.answer # <<>>
    /\ ~lastOp.grounding[1]
    /\ lastOp.ret[1][1] = Caveat[1]

\* the (source, rule id) pair of a document as add_source_citations reads it
PairOf(doc) ==
    <<Get(doc.metadata, "source", <<"U", "n", "k", "n", "o", "w", "n">>),
      Get(doc.metadata, "rule_id", <<>>)>>

\* one citation line for every document from i on whose pair no earlier document has
RECURSIVE FirstLines(_, _)
FirstLines(sources, i) ==
    IF i > Len(sources) THEN <<>>
    ELSE (IF \A j \in 1..(i - 1) : PairOf(sources[j]) # PairOf(sources[i])
            THEN LET pair == PairOf(sources[i])
                 IN IF pair[2] # <<>>
                      THEN <<"- ">> \o pair[1] \o <<" (Rule ">> \o pair[2] \o <<")\n">>
                      ELSE <<"- ">> \o pair[1] \o <<"\n">>
            ELSE <<>>)
         \o FirstLines(sources, i + 1)

\* C18: add_source_citations appends one line per distinct (source, rule id) pair of the
\* list, in the order of first occurrence, and never one line for two different pairs
C18_CitationsDeduplicated ==
    lastOp.op = "validate_output" =>
        lastOp.cited = IF lastOp.sources = <<>> THEN lastOp.answer
                       ELSE lastOp.answer \o <<"\n\n**Sources:**\n">>
                            \o FirstLines(lastOp.sources, 1)

\* a rule's chunk, a source whose name ends like that rule id, and the rule's other chunk
C18_Witness ==
    /\ lastOp.op = "validate_output"
    /\ lastOp.sources = <<D_drs, D_und, D_zone>>

\* C19: every result get_answer returns, blocked or answered, has a validation_info with
\* input_blocked, is_grounded, grounding_score in [0, 1] and has_citations
C19_ValidationInfoShape ==
    \A r \in Reqs :
        (pc[r] \in {"BLOCKED", "DONE"} /\ result[r].kind = "return") =>
            LET info == result[r].value.validation_info
            IN /\ {"input_blocked", "is_grounded", "grounding_score", "has_citations"}
                      \subseteq DOMAIN info
               /\ 0 <= info.grounding_score.num
               /\ info.grounding_score.num <= info.grounding_score.den

\* C20: clear_history(s) leaves get_chat_history(s) and get_session_history(s).messages
\* empty whatever was added before, touches no other session, and changes nothing when
\* the session was never referenced
C20_ClearEmptiesSession ==
    [][\A s \in Sessions :
           ClearHistory(s) =>
               /\ get_chat_history(chat_histories', s) = <<>>
               /\ get_chat_history_list(stores', s) = <<>>
               /\ \A t \in DOMAIN stores \ {s} : stores'[t] = stores[t]
               /\ DOMAIN stores' = DOMAIN stores
               /\ s \notin DOMAIN stores => UNCHANGED <<stores, chat_histories>>]_vars

\* exchanges have been added and every session on record is empty again
C20_Witness ==
    /\ nAppend >= 2
    /\ DOMAIN stores = Sessions
    /\ \A s \in Sessions : stores[s] = <<>> /\ appended[s] = <<>>

\* the parts give a stem the pattern is found in: FIA, white space, four digits, a capital
\* section letter, any name in brackets, an issue of digits and a date of 4-2-2 digits
TakesPattern(n) ==
    /\ n.space # <<>>
    /\ n.year = <<"2", "0", "2", "6">>
    /\ n.section = <<"B">>
    /\ n.issue = <<"0", "5">>
    /\ n.date = <<"2", "0", "2", "5", "-", "1", "2", "-", "1", "0">>

\* C21: for a file name whose stem holds the pattern, extract_metadata_from_filename returns
\* source and exactly the five fields, with the values of the name; for every other path it
\* returns exactly {source: stem}; it returns for every path
C21_MetadataParser ==
    lastOp.op = "extract_metadata_from_filename" =>
        IF ~lastOp.free /\ TakesPattern(lastOp.parts)
          THEN lastOp.ret = [source |-> lastOp.stem,
                             regulation_year |-> lastOp.parts.year,
                             section |-> lastOp.parts.section,
                             section_name |-> lastOp.parts.section_name,
                             issue |-> lastOp.parts.issue,
                             publication_date |-> lastOp.parts.date]
          ELSE lastOp.ret = [source |-> lastOp.stem]

\* a matching name in a directory, with words around the pattern and a bracket in the
\* section name
C21_Witness ==
    /\ lastOp.op = "extract_metadata_from_filename"
    /\ ~lastOp.free
    /\ lastOp.parts.dir # <<>> /\ lastOp.parts.before # <<>> /\ lastOp.parts.after # <<>>
    /\ lastOp.parts.section_name = <<"a", "]", " ", "[", "b">>
    /\ DOMAIN lastOp.ret = {"source", "regulation_year", "section", "section_name", "issue",
                            "publication_date"}

\* the places of the chunks of a source among the documents of a run
PlacesOf(run, source) ==
    {i \in 1..Len(run.documents) : run.documents[i].metadata.source = source}

\* C25: a file that is in the directory at both runs, unchanged, gets the same ids for its
\* chunks at both, whatever else the directory holds and in whatever order it is listed
C25_ReingestionStable ==
    lastOp.op = "run_ingestion" =>
        \A i \in 1..Len(lastOp.first.documents) :
            LET source == lastOp.first.documents[i].metadata.source
                before == PlacesOf(lastOp.first, source)
                after == PlacesOf(lastOp.second, source)
                ordinal == Cardinality({j \in before : j < i})
            IN after # {} =>
                   \E k \in after :
                       /\ Cardinality({j \in after : j < k}) = ordinal
                       /\ lastOp.second.ids[k] = lastOp.first.ids[i]

\* C26: two chunks of one run never get the same id
C26_ChunkIdInjective ==
    lastOp.op = "run_ingestion" =>
        \A i, j \in 1..Len(lastOp.first.ids) :
            i # j => lastOp.first.ids[i] # lastOp.first.ids[j]

\* C27: every chunk keeps the text and the place of its window, and carries every field
\* read from the file name with the value read from the file name
C27_FilenameMetadataPreserved ==
    lastOp.op = "chunk_file" =>
        /\ Len(lastOp.ret) = Len(lastOp.docs)
        /\ \A i \in 1..Len(lastOp.ret) :
               /\ lastOp.ret[i].page_content = lastOp.docs[i].page_content
               /\ \A k \in DOMAIN lastOp.file_metadata :
                      /\ k \in DOMAIN lastOp.ret[i].metadata
                      /\ lastOp.ret[i].metadata[k] = lastOp.file_metadata[k]

\* C29: from the second completed request of a session on, with no clear in between, the
\* chat_history handed to the generator is the messages add_to_history recorded for the
\* earlier requests of the session, up to the cap, before the current exchange is added
C29_ContextReachesGenerator ==
    \A r \in Reqs :
        (pc[r] \in {"GENERATED", "OUTPUT_CHECKED"} /\ completed[session_id[r]] >= 1) =>
            history[r] = LastN(appended[session_id[r]], HistoryCap)

\* C28: on both entry points, a call issues a vector-index query or a generation only
\* after validate_input, and only for a question validate_input accepts
C28_GuardPrecedesRetrieval ==
    \A r \in Reqs :
        \A i \in 1..Len(calls[r]) :
            calls[r][i] \in {"vector_index", "generator"} =>
                /\ \E j \in 1..(i - 1) : calls[r][j] = "validate_input"
                /\ validate_input(question[r])[1]

\* what the operations on session t return: its override collection and its two histories
Observable(sc, st, ch, t) ==
    <<get_session_collection(sc, t), Get(st, t, <<>>), get_chat_history(ch, t)>>

\* C30: an operation on session s leaves the override collection and the history of every
\* other session as they were; a registry operation leaves the histories alone and a history
\* operation the registry; a get changes nothing an operation can return, for any session
C30_SessionIsolation ==
    [][\A s \in Sessions :
           LET registry_op == \/ \E c \in OverrideNames : SetSessionCollection(s, c)
                              \/ ClearSessionCollection(s)
                              \/ GetSessionCollection(s)
               history_op == \/ \E u \in UserMsgs, a \in AiMsgs : AddToHistory(s, u, a)
                             \/ ClearHistory(s)
                             \/ GetChatHistoryList(s)
                             \/ GetChatHistory(s)
               get == GetSessionCollection(s) \/ GetChatHistoryList(s) \/ GetChatHistory(s)
               same(t) == Observable(session_collections', stores', chat_histories', t)
                              = Observable(session_collections, stores, chat_histories, t)
           IN /\ (registry_op \/ history_op) => \A t \in Sessions \ {s} : same(t)
              /\ registry_op => UNCHANGED <<stores, chat_histories>>
              /\ history_op => UNCHANGED session_collections
              /\ get => same(s)]_vars

\* a session with an override and a history, and the override of the other session, which
\* a get has put on record with no messages, has just been cleared
C30_Witness ==
    /\ lastOp = [op |-> "clear_session_collection", s |-> "s2"]
    /\ "s1" \in DOMAIN session_collections
    /\ DOMAIN stores = Sessions
    /\ stores["s1"] # <<>>
    /\ stores["s2"] = <<>>

----------------------------------------------------------------------------
(* The history store under concurrent threads *)

\* the exchanges of a history, two messages each
ExchangesOf(messages) ==
    [i \in 1..(Len(messages) \div 2) |-> <<messages[2 * i - 1], messages[2 * i]>>]

\* C22: whatever the threads are doing, the history a reader is given (by
\* get_chat_history_list, or by the history load of a get_answer call) has even length:
\* no user message is seen without its assistant message.
C22_NoHalfUpdatedHistory ==
    /\ lastOp.op = "get_chat_history_list" => Len(lastOp.ret) % 2 = 0
    /\ \A r \in Reqs : Len(history[r]) % 2 = 0

\* C23: once the add_to_history calls on a session have all returned, the session's
\* history holds every exchange handed to them, each user message directly followed by
\* its own assistant message, in some order of the exchanges.
C23_ConcurrentAppendsPaired ==
    \A s \in Sessions :
        (\A r \in Reqs : session_id[r] = s => pc[r] \notin AddPcs)
        => LET held == Get(stores, s, <<>>)
               n == Len(appended[s]) \div 2
           IN /\ Len(held) = Len(appended[s])
              /\ \E p \in Permutations(1..n) :
                    \A i \in 1..n : ExchangesOf(held)[i] = ExchangesOf(appended[s])[p[i]]

----------------------------------------------------------------------------
(* The registry under concurrent threads *)

\* the registry a sequential run of the first k logged operations leaves for a session
RegistryAfter(log, k, s) ==
    LET writes == {i \in 1..k : log[i].s = s /\ log[i].op \in {"set", "clear"}}
    IN IF writes = {} THEN None
       ELSE LET last == CHOOSE i \in writes : \A j \in writes : j <= i
            IN IF log[last].op = "set" THEN log[last].v ELSE None

\* C24: the body of every registry operation runs while its thread holds the one lock, one
\* thread at a time, so the operations took effect in one sequential order: every get
\* returned what the sets and clears before it in that order left for its session (absent
\* after none or after a clear), the mapping is what that order leaves, and no thread holds
\* the lock while its ingestion, vector-index or generation call is in progress.
C24_RegistryAtomic ==
    /\ \A r \in Reqs : pc[r] \in LockedPcs <=> lock = r
    /\ \A k \in 1..Len(reg_log) :
           reg_log[k].op = "get" => reg_log[k].v = RegistryAfter(reg_log, k - 1, reg_log[k].s)
    /\ \A s \in Sessions :
           Get(session_collections, s, None) = RegistryAfter(reg_log, Len(reg_log), s)
    /\ \A r \in Reqs : pc[r] \in ExternalPcs => lock # r

\* one thread holds the lock after its get returned what another thread's set wrote, while
\* the other thread waits for the lock
C24_Witness ==
    \E r \in Reqs, w \in Reqs :
        /\ lock = r /\ pc[r] = "GET_LEAVING"
        /\ w # r /\ pc[w] \in WaitPcs
        /\ \E i \in 1..Len(reg_log), j \in 1..Len(reg_log) :
              /\ i < j
              /\ reg_log[i].op = "set" /\ reg_log[i].r = w
              /\ reg_log[j].op = "get" /\ reg_log[j].r = r
              /\ reg_log[j].s = reg_log[i].s /\ reg_log[j].v = reg_log[i].v

====
